---- MODULE Spec2Model ----
(***************************************************************************)
(* Market-data enrichment pipeline of src/src/lib/kis.ts: the credential   *)
(* manager (getAccessToken, authorizedFetch), the per-ticker quote fetcher *)
(* (fetchDomesticQuote, fetchDomesticFinancials, fetchDomesticDailyBars,   *)
(* fetchOverseasQuote) and the worker pool (runWithConcurrency,            *)
(* fetchQuotes).                                                           *)
(*                                                                         *)
(* Granularity.  JavaScript runs the code between two suspension points    *)
(* atomically, so one action is one resumption: everything from the event  *)
(* that wakes a coroutine up to the next await that really suspends.  The  *)
(* suspension points of kis.ts are the pacing sleep(120), the token        *)
(* endpoint call, the back-off sleep of a refresh and the data call.       *)
(* `await fetch` and the following `await response.json()` are one upstream *)
(* answer: only one of the two resumptions touches shared state (the 401   *)
(* test after fetch, the cache write after json).                          *)
(*                                                                         *)
(* Optional values (undefined / null) are sequences of length 0 or 1.      *)
(***************************************************************************)
EXTENDS Integers, Sequences, FiniteSets, TLC

\* ------------------------------------------------------------------ bounds

\* under SpecRefetch fetchQuotes is invoked at most MaxBatches times, one
\* invocation after the other (under Spec it is invoked once)
MaxBatches == 2
\* the clock advances at most MaxTicks times
MaxTicks == 1
\* the token endpoint hands out at most MaxTokens tokens
MaxTokens == 2
\* under SpecPool runWithConcurrency gets at most MaxPoolTasks tasks
MaxPoolTasks == 3

\* --------------------------------------------------------------- constants

QUOTE_TTL_MS == 20000
REQUEST_TIMEOUT_MS == 12000
\* 24 * 60 * 60 * 1000
FIN_TTL_MS == 86400000
\* 23 * 60 * 60 * 1000, the TTL assumed when expires_in is absent or invalid
FALLBACK_TTL_MS == 82800000
\* the safety margin subtracted from the token's TTL
SAFETY_MARGIN_MS == 60000
\* the concurrency cap fetchQuotes passes to runWithConcurrency
CONCURRENCY_LIMIT == 2
\* for (let attempt = 0; attempt < 2; ...)
TOKEN_ATTEMPTS == 2

Null == <<>>
Some(x) == <<x>>
IsSome(o) == o # <<>>

Min(a, b) == IF a < b THEN a ELSE b

\* ----------------------------------------------------------------- tickers
\* A ticker string is a sequence of one-character strings.

Digits == {"0", "1", "2", "3", "4", "5", "6", "7", "8", "9"}

\* String.prototype.toUpperCase on the letters the inputs use
UpperChar(c) ==
  CASE c = "a" -> "A"
    [] c = "p" -> "P"
    [] c = "l" -> "L"
    [] c = "z" -> "Z"
    [] c = "n" -> "N"
    [] c = "k" -> "K"
    [] c = "o" -> "O"
    [] c = "w" -> "W"
    [] OTHER -> c

toUpperCase(s) == [i \in 1..Len(s) |-> UpperChar(s[i])]

RECURSIVE trimStart(_)
trimStart(s) ==
  IF s # <<>> /\ Head(s) = " " THEN trimStart(Tail(s)) ELSE s

RECURSIVE trimEnd(_)
trimEnd(s) ==
  IF s # <<>> /\ s[Len(s)] = " " THEN trimEnd(SubSeq(s, 1, Len(s) - 1)) ELSE s

trim(s) == trimEnd(trimStart(s))

RECURSIVE padStart(_, _, _)
padStart(s, n, c) == IF Len(s) >= n THEN s ELSE padStart(<<c>> \o s, n, c)

AllDigits(s) == \A i \in 1..Len(s) : s[i] \in Digits

\* normalizeTicker without the padding
normalizeTicker_noPad(ticker) == toUpperCase(trim(ticker))

normalizeTicker(ticker) ==
  LET clean == toUpperCase(trim(ticker))
  IN  IF Len(clean) \in 1..6 /\ AllDigits(clean)
        THEN padStart(clean, 6, "0")
        ELSE clean

isKrTicker(ticker) == Len(ticker) = 6 /\ AllDigits(ticker)

\* The input strings the batches are built from: a domestic symbol in its
\* padded and its short form, a foreign symbol of the exchange table in its
\* normalized and an un-normalized form, a foreign symbol the table lacks.
T_KR == <<"0", "0", "5", "9", "3", "0">>
T_KR_SHORT == <<"5", "9", "3", "0">>
T_US == <<"A", "A", "P", "L">>
T_US_RAW == <<" ", "a", "a", "p", "l">>
T_US_UNMAPPED == <<"Z", "Z">>

\* The batches fetchQuotes is called with.
Batches ==
  { <<>>,
    <<T_KR_SHORT>>,
    <<T_US, T_US_RAW, T_US_UNMAPPED>> }

\* The batches of SpecRefetch: the same domestic symbol again.
RefetchBatches == { <<T_KR>>, <<T_KR_SHORT>> }

\* The batches of SpecCache: one domestic or one foreign symbol, again.
CacheBatches == { <<T_KR>>, <<T_US>> }

InputTickers ==
  UNION { {b[i] : i \in 1..Len(b)} : b \in Batches \cup RefetchBatches \cup CacheBatches }
NormTickers == { normalizeTicker(t) : t \in InputTickers }

\* us_exchange_map.json: the known exchange of a foreign symbol, if any
usExchangeMap(ticker) == IF ticker = T_US THEN Some("NAS") ELSE Null

FALLBACK_EXCHANGES == <<"NAS", "NYS", "AMS">>

\* ------------------------------------------------------------------ values

\* A field of an upstream payload that the code passes to parseNumber:
\* "num" is text that Number() reads as the finite number v (thousands
\* separators removed), "blank" is "" or white space (Number("") is 0),
\* "text" is anything else, null and undefined included (NaN).
Raw(t, v) == [t |-> t, v |-> v]

parseNumber(value) ==
  CASE value.t = "num" -> Some(value.v)
    [] value.t = "blank" -> Some(0)
    [] OTHER -> Null

\* a Quote (types.ts) with no optional field set
BlankQuote(ticker) ==
  [ ticker |-> ticker, price |-> Null, changePercent |-> Null, volume |-> Null,
    fundamentals |-> Null, technical |-> Null, note |-> Null ]

\* a || b on strings: the empty string is falsy
OrElse(a, b) == IF a # "" THEN a ELSE b

\* What fetch / response.json() reject with: a network error or an abort after
\* REQUEST_TIMEOUT_MS, or an unparsable body.  Its message may be empty.
ThrowMessages == {""}

\* ------------------------------------------------------- upstream answers
\* One answer of the upstream to one call: either the call rejects (throws)
\* or it yields an HTTP status and a JSON payload.

TokenAnswers ==
  { [throws |-> TRUE, message |-> m, ok |-> FALSE, access_token |-> FALSE, expires_in |-> Null]
      : m \in {"fetch failed"} }
  \cup { [throws |-> FALSE, message |-> "", ok |-> FALSE, access_token |-> FALSE, expires_in |-> Null],
         [throws |-> FALSE, message |-> "", ok |-> TRUE, access_token |-> FALSE, expires_in |-> Null] }
  \cup { [throws |-> FALSE, message |-> "", ok |-> TRUE, access_token |-> TRUE, expires_in |-> e]
           : e \in {Null, Some(30), Some(70)} }

QuoteAnswers ==
  { [throws |-> TRUE, message |-> m, status |-> 0, rt_cd |-> "", msg1 |-> "", stck_prpr |-> Raw("text", 0)]
      : m \in ThrowMessages }
  \cup { [throws |-> FALSE, message |-> "", status |-> st, rt_cd |-> "0", msg1 |-> "",
           stck_prpr |-> Raw("num", 70000)] : st \in {200, 500} }
  \cup { [throws |-> FALSE, message |-> "", status |-> 500, rt_cd |-> "1", msg1 |-> m, stck_prpr |-> Raw("text", 0)]
           : m \in {"", "EGW00201"} }
  \cup { [throws |-> FALSE, message |-> "", status |-> 401, rt_cd |-> "1", msg1 |-> "EGW00123", stck_prpr |-> Raw("text", 0)] }

FinAnswers ==
  { [throws |-> TRUE, message |-> "", status |-> 0, rt_cd |-> "", rows |-> 0] }
  \cup { [throws |-> FALSE, message |-> "", status |-> 200, rt_cd |-> "0", rows |-> n] : n \in {0, 1} }
  \cup { [throws |-> FALSE, message |-> "", status |-> st, rt_cd |-> "1", rows |-> 0] : st \in {401} }

\* rows: the number of rows of output2 with a date and a positive close
BarsAnswers ==
  { [throws |-> TRUE, message |-> "", status |-> 0, rt_cd |-> "", rows |-> 0] }
  \cup { [throws |-> FALSE, message |-> "", status |-> 200, rt_cd |-> "0", rows |-> n] : n \in {19, 20} }
  \cup { [throws |-> FALSE, message |-> "", status |-> st, rt_cd |-> "1", rows |-> 0] : st \in {500} }

OverseasAnswers ==
  { [throws |-> TRUE, message |-> "", status |-> 0, rt_cd |-> "", last |-> Raw("text", 0)] }
  \cup { [throws |-> FALSE, message |-> "", status |-> 200, rt_cd |-> "0", last |-> r]
           : r \in {Raw("num", 190), Raw("num", 0), Raw("text", 0)} }
  \cup { [throws |-> FALSE, message |-> "", status |-> st, rt_cd |-> "1", last |-> Raw("text", 0)]
           : st \in {401, 500} }

AnswersOf(kind) ==
  CASE kind = "quote" -> QuoteAnswers
    [] kind = "fin" -> FinAnswers
    [] kind = "bars" -> BarsAnswers
    [] OTHER -> OverseasAnswers

\* the steps the clock advances by
Deltas == {10000, 20000}
\* the steps of SpecCache: the time to live of a quote and of fundamentals
CacheDeltas == {QUOTE_TTL_MS, FIN_TTL_MS}

\* ------------------------------------------------------------------- state

VARIABLES
  configured,     \* isConfigured(): APP_KEY and APP_SECRET are both set
  clock,          \* Date.now()
  ticks,          \* how often the clock has advanced
  cachedToken,    \* Null or Some([token, expiresAt])
  tokenInFlight,  \* Null or Some(id of the refresh whose promise it holds)
  refreshes,      \* the running refresh coroutines: id -> attempt, phase, lastError
  tokensIssued,   \* the number of tokens the token endpoint has handed out
  quoteCache,     \* normalized ticker -> Null or Some([data, expiresAt])
  finCache,       \* normalized ticker -> Null or Some([data, expiresAt])
  batch,          \* the number of fetchQuotes invocations so far
  tickers,        \* the argument of the current invocation
  index,          \* runWithConcurrency: the shared cursor (indices claimed)
  tasks,          \* per index of the current invocation: the task's progress
  results,        \* runWithConcurrency: the results array (Null: empty slot)
  fibers,         \* the suspended fetch coroutines, by <<batch, index, kind>>
  retval,         \* Null while the invocation is pending, else Some(returned list)
  spotFailAt,     \* history: per ticker, when (and during which invocation) the
                  \* spot-quote endpoint last answered with a failure
  limit,          \* the concurrency cap fetchQuotes passes to runWithConcurrency
  oracle,         \* Null, or Some(the answers of an upstream that always gives
                  \* the same answer to the same request)
  pool,           \* one call of runWithConcurrency with tasks of any kind
  calc            \* one application of a pure function: its input and its output

\* the state of kis.ts
kisVars ==
  << configured, clock, ticks, cachedToken, tokenInFlight, refreshes, tokensIssued,
     quoteCache, finCache, batch, tickers, index, tasks, results, fibers, retval,
     spotFailAt >>

\* what a step of a fetchQuotes invocation never touches
aux == << limit, oracle, pool, calc >>

vars ==
  << configured, clock, ticks, cachedToken, tokenInFlight, refreshes, tokensIssued,
     quoteCache, finCache, batch, tickers, index, tasks, results, fibers, retval,
     spotFailAt, limit, oracle, pool, calc >>

\* ------------------------------------------------------------- the caches

\* CacheHit with >= : an entry is still served at the instant it expires
CacheHit_inclusive(cache, key, t) == IsSome(cache[key]) /\ cache[key][1].expiresAt >= t

\* `cached && cached.expiresAt > now()`
CacheHit(cache, key, t) == IsSome(cache[key]) /\ cache[key][1].expiresAt > t

CacheSet(cache, key, data, t, ttl) ==
  [cache EXCEPT ![key] = Some([data |-> data, expiresAt |-> t + ttl])]

\* --------------------------------------------------- the pipeline's state
\* The operators below transform a record s of the fields a resumption can
\* change on its way to the next suspension:
\*   tickers, batch, index, tasks, results, fibers, quoteCache, finCache.

\* results[current] = value on a JavaScript array: the array grows to
\* current, the slots never written stay empty
ArraySet(arr, current, value) ==
  [i \in 1..(IF current > Len(arr) THEN current ELSE Len(arr)) |->
     IF i = current THEN Some(value)
     ELSE IF i <= Len(arr) THEN arr[i] ELSE Null]

\* caught, spotFailed and quoteHit are history: the catch block ran, the
\* spot-quote endpoint answered with a failure, the task took its quote from
\* the cache when it started
UnclaimedTask ==
  [status |-> "unclaimed", quote |-> Null, fin |-> Null, bars |-> Null,
   caught |-> FALSE, spotFailed |-> FALSE, quoteHit |-> FALSE]

\* A fetch coroutine suspended at its pacing sleep.  retry is authorizedFetch's
\* retryOnUnauthorized, ex the position in the exchange list (foreign only),
\* tok the token of the outstanding call, await the refresh it waits for,
\* owner whether it created that refresh.  calls, via and invalAt are history:
\* the data calls issued by the current authorizedFetch invocation, where the
\* token of the latest call came from ("cache" or "refresh"), and the number of
\* tokens handed out when the invocation cleared the cached token.
NewFiber(ticker, ex) ==
  [pc |-> "sleep", ticker |-> ticker, retry |-> TRUE, ex |-> ex, tok |-> Null,
   await |-> 0, owner |-> FALSE, calls |-> 0, via |-> "none", invalAt |-> 0]

\* Exchanges that ignores the exchange table
Exchanges_unmapped(ticker) == FALLBACK_EXCHANGES

\* `mappedExchange ? [mappedExchange] : ["NAS", "NYS", "AMS"]`
Exchanges(ticker) ==
  IF IsSome(usExchangeMap(ticker)) THEN <<usExchangeMap(ticker)[1]>> ELSE FALLBACK_EXCHANGES

RemoveFiber(fs, f) == [k \in DOMAIN fs \ {f} |-> fs[k]]

\* The task of index i runs up to its first suspension: the cache reads of
\* fetchDomesticQuote / fetchDomesticFinancials / fetchOverseasQuote happen
\* here, a coroutine is left suspended for every miss.
StartTask(s, i, t) ==
  LET original == s.tickers[i]
      normalized == normalizeTicker(original)
  IN  IF isKrTicker(normalized)
        THEN LET qHit == CacheHit(s.quoteCache, normalized, t)
                 fHit == CacheHit(s.finCache, normalized, t)
                 started == {<<s.batch, i, "bars">>}
                              \cup (IF qHit THEN {} ELSE {<<s.batch, i, "quote">>})
                              \cup (IF fHit THEN {} ELSE {<<s.batch, i, "fin">>})
             IN  [s EXCEPT
                    !.tasks[i] =
                      [UnclaimedTask EXCEPT
                         !.status = "running",
                         !.quoteHit = qHit,
                         !.quote = IF qHit THEN Some(s.quoteCache[normalized][1].data) ELSE Null,
                         !.fin = IF fHit THEN Some(Some(s.finCache[normalized][1].data)) ELSE Null],
                    !.fibers =
                      [k \in DOMAIN s.fibers \cup started |->
                         IF k \in started THEN NewFiber(normalized, 0) ELSE s.fibers[k]]]
        ELSE IF CacheHit(s.quoteCache, normalized, t)
          THEN [s EXCEPT
                  !.tasks[i].status = "done",
                  !.results =
                    ArraySet(s.results, i,
                             [s.quoteCache[normalized][1].data EXCEPT !.ticker = original])]
          ELSE [s EXCEPT
                  !.tasks[i].status = "running",
                  !.fibers = s.fibers @@ (<<s.batch, i, "ovs">> :> NewFiber(normalized, 1))]

\* One worker of runWithConcurrency from the loop test to its next suspension:
\* it claims indices until a task suspends or none is left.
RECURSIVE WorkerLoop(_, _)
WorkerLoop(s, t) ==
  IF ~(s.index < Len(s.tickers))
    THEN s
    ELSE LET current == s.index + 1
             started == StartTask([s EXCEPT !.index = current], current, t)
         IN  IF started.tasks[current].status = "done"
               THEN WorkerLoop(started, t)
               ELSE started

\* Array.from({ length: Math.min(limit, tasks.length) }, async () => ...)
RECURSIVE StartWorkers(_, _, _)
StartWorkers(s, n, t) ==
  IF n = 0 THEN s ELSE StartWorkers(WorkerLoop(s, t), n - 1, t)

\* Finish by a worker that ends after one task instead of looping
Finish_once(s, i, quote, t) ==
  [s EXCEPT !.tasks[i].status = "done", !.results = ArraySet(s.results, i, quote)]

\* the task of index i returns quote: its worker stores it and loops
Finish(s, i, quote, t) ==
  WorkerLoop([s EXCEPT !.tasks[i].status = "done",
                       !.results = ArraySet(s.results, i, quote)], t)

\* TaskCatch without the try/catch: the error leaves the task, the worker dies
\* with it and its slot is never written
TaskCatch_rethrow(s, i, message, t) ==
  [s EXCEPT !.tasks[i].caught = TRUE, !.tasks[i].status = "done"]

\* the catch block of the task
TaskCatch(s, i, message, t) ==
  Finish([s EXCEPT !.tasks[i].caught = TRUE], i,
         [BlankQuote(s.tickers[i]) EXCEPT !.note = Some(OrElse(message, "KIS request error"))],
         t)

\* TaskValue without `ticker: pair.original`: the normalized ticker stays
TaskValue_normalized(s, i) ==
  [s.tasks[i].quote[1] EXCEPT
     !.fundamentals = s.tasks[i].fin[1],
     !.technical = s.tasks[i].bars[1]]

\* the value the domestic task returns once Promise.all has the three results
TaskValue(s, i) ==
  [s.tasks[i].quote[1] EXCEPT
     !.fundamentals = s.tasks[i].fin[1],
     !.technical = s.tasks[i].bars[1],
     !.ticker = s.tickers[i]]

Live(s, f) == f[1] = s.batch /\ s.tasks[f[2]].status = "running"

\* the coroutine f fulfils with value
Resolve(s, f, value, t) ==
  LET i == f[2]
      s1 == [s EXCEPT !.fibers = RemoveFiber(s.fibers, f)]
  IN  IF ~Live(s, f) THEN s1
      ELSE IF f[3] = "ovs"
        THEN Finish(s1, i, [value EXCEPT !.ticker = s.tickers[i]], t)
        ELSE LET s2 == [s1 EXCEPT !.tasks[i][f[3]] = Some(value)]
             IN  IF IsSome(s2.tasks[i].quote) /\ IsSome(s2.tasks[i].fin) /\ IsSome(s2.tasks[i].bars)
                   THEN Finish(s2, i, TaskValue(s2, i), t)
                   ELSE s2

\* the coroutine f rejects with an error: Promise.all rejects at the first
\* rejection, the coroutines still running are left to run
Reject(s, f, message, t) ==
  LET s1 == [s EXCEPT !.fibers = RemoveFiber(s.fibers, f)]
  IN  IF Live(s, f) THEN TaskCatch(s1, f[2], message, t) ELSE s1

RECURSIVE RejectAll(_, _, _, _)
RejectAll(s, F, message, t) ==
  IF F = {} THEN s
  ELSE LET f == CHOOSE x \in F : TRUE
       IN  RejectAll(Reject(s, f, message, t), F \ {f}, message, t)

Cur ==
  [tickers |-> tickers, batch |-> batch, index |-> index, tasks |-> tasks,
   results |-> results, fibers |-> fibers, quoteCache |-> quoteCache,
   finCache |-> finCache]

\* an invocation of fetchQuotes has not returned yet
Pending == batch > 0 /\ retval = Null

\* Promise.allSettled(workers) settles when no worker is left, i.e. no task runs
AllWorkersEnded(s) == \A i \in 1..Len(s.tasks) : s.tasks[i].status # "running"

Commit(s, pending) ==
  /\ index' = s.index
  /\ tasks' = s.tasks
  /\ results' = s.results
  /\ fibers' = s.fibers
  /\ quoteCache' = s.quoteCache
  /\ finCache' = s.finCache
  /\ retval' = IF ~pending THEN retval
               ELSE IF AllWorkersEnded(s) THEN Some(s.results) ELSE Null

\* ------------------------------------------------------ credential manager

\* isConfigured that does not look at the keys
isConfigured_always == TRUE

isConfigured == configured

\* expires_in of the token payload -> ttlMs
TtlMs(expires_in) ==
  IF IsSome(expires_in) /\ expires_in[1] > 0 THEN expires_in[1] * 1000 ELSE FALLBACK_TTL_MS

\* ExpiresAt without the safety margin
ExpiresAt_noMargin(t, expires_in) == t + TtlMs(expires_in)

\* the expiry stored with a token received at time t
ExpiresAt(t, expires_in) == t + TtlMs(expires_in) - SAFETY_MARGIN_MS

\* TokenFresh with the comparison turned round
TokenFresh_inverted(ct, t) == IsSome(ct) /\ ct[1].expiresAt < t

\* `cachedToken && cachedToken.expiresAt > now()`
TokenFresh(ct, t) == IsSome(ct) /\ ct[1].expiresAt > t

NewRefreshId(rs) == CHOOSE n \in 1..(Cardinality(DOMAIN rs) + 1) : n \notin DOMAIN rs

\* getAccessToken without `if (tokenInFlight) return tokenInFlight`
getAccessToken_noJoin(ct, fl, rs, t) ==
  IF IsSome(ct) /\ ct[1].expiresAt > t THEN [how |-> "cached", id |-> 0]
  ELSE [how |-> "start", id |-> NewRefreshId(rs)]

\* getAccessToken up to its return or its await: the cached token, the promise
\* of the refresh in flight, or a refresh it starts itself
getAccessToken(ct, fl, rs, t) ==
  IF TokenFresh(ct, t) THEN [how |-> "cached", id |-> 0]
  ELSE IF IsSome(fl) THEN [how |-> "join", id |-> fl[1]]
  ELSE [how |-> "start", id |-> NewRefreshId(rs)]

\* authorizedFetch from its entry to its first suspension, for the coroutine
\* fb: the data call is issued at once with a cached token, else the coroutine
\* waits for a refresh.  Gives the coroutine, tokenInFlight and refreshes.
authorizedFetch(fb, ct, fl, rs, t) ==
  LET g == getAccessToken(ct, fl, rs, t)
  IN  CASE g.how = "cached" ->
             [fiber |-> [fb EXCEPT !.pc = "call", !.tok = Some(ct[1].token),
                                   !.calls = fb.calls + 1, !.via = "cache"],
              inFlight |-> fl, refreshes |-> rs]
        [] g.how = "join" ->
             [fiber |-> [fb EXCEPT !.pc = "token", !.await = g.id, !.owner = FALSE],
              inFlight |-> fl, refreshes |-> rs]
        [] OTHER ->
             [fiber |-> [fb EXCEPT !.pc = "token", !.await = g.id, !.owner = TRUE],
              inFlight |-> Some(g.id),
              refreshes |-> rs @@ (g.id :> [attempt |-> 0, phase |-> "fetch", lastError |-> ""])]

\* RetryFiber that passes retryOnUnauthorized = true again
RetryFiber_again(fb, issued) ==
  [fb EXCEPT !.tok = Null, !.invalAt = issued]

\* the recursive call authorizedFetch(url, init, false) after a 401: the same
\* coroutine, not to retry again; issued is the number of tokens handed out so far
RetryFiber(fb, issued) ==
  [fb EXCEPT !.retry = FALSE, !.tok = Null, !.invalAt = issued]

Waiting(r) == {f \in DOMAIN fibers : fibers[f].pc = "token" /\ fibers[f].await = r}

\* AfterSettle without the finally block
AfterSettle_keep(r) == tokenInFlight

\* `finally { tokenInFlight = null }` of the caller that created refresh r
AfterSettle(r) ==
  IF \E f \in Waiting(r) : fibers[f].owner THEN Null ELSE tokenInFlight

RemoveRefresh(r) == [k \in DOMAIN refreshes \ {r} |-> refreshes[k]]

\* refresh r fails: every caller awaiting it gets the error
RefreshFails(r, message) ==
  /\ tokenInFlight' = AfterSettle(r)
  /\ refreshes' = RemoveRefresh(r)
  /\ Commit(RejectAll(Cur, Waiting(r), message, clock), Pending)
  /\ UNCHANGED <<configured, clock, ticks, cachedToken, tokensIssued, batch, tickers, spotFailAt>>

\* The tokens the token endpoint hands out at most.  Against an upstream of
\* fixed answers (SpecCap) it is four more, one token per call of a batch of
\* two domestic symbols: a token that is stale on arrival is requested again
\* by every call.
TokenBudget == IF oracle = Null THEN MaxTokens ELSE MaxTokens + 4

\* refresh r obtains a token: it is cached, and every caller awaiting r issues
\* its data call with it
RefreshSucceeds(r, expires_in) ==
  LET token == [id |-> tokensIssued + 1,
                trueExp |-> IF IsSome(expires_in) /\ expires_in[1] > 0
                              THEN clock + expires_in[1] * 1000 ELSE 0]
  IN  /\ tokensIssued < TokenBudget
      /\ tokensIssued' = tokensIssued + 1
      /\ cachedToken' = Some([token |-> token, expiresAt |-> ExpiresAt(clock, expires_in)])
      /\ tokenInFlight' = AfterSettle(r)
      /\ refreshes' = RemoveRefresh(r)
      /\ fibers' = [f \in DOMAIN fibers |->
                      IF f \in Waiting(r)
                        THEN [fibers[f] EXCEPT !.pc = "call", !.tok = Some(token), !.await = 0,
                                               !.owner = FALSE, !.calls = fibers[f].calls + 1,
                                               !.via = "refresh"]
                        ELSE fibers[f]]
      /\ UNCHANGED <<configured, clock, ticks, quoteCache, finCache, batch, tickers, index,
                     tasks, results, retval, spotFailAt>>

\* the token endpoint answers the call of refresh r
TokenResponse(r, a) ==
  /\ UNCHANGED aux
  /\ r \in DOMAIN refreshes
  /\ refreshes[r].phase = "fetch"
  /\ a \in TokenAnswers
  /\ CASE a.throws -> RefreshFails(r, a.message)
       [] a.ok /\ a.access_token -> RefreshSucceeds(r, a.expires_in)
       [] OTHER ->
            /\ refreshes' =
                 [refreshes EXCEPT
                    ![r].phase = "backoff",
                    ![r].lastError = IF a.ok THEN "KIS token response missing access_token"
                                     ELSE "KIS token request failed"]
            /\ UNCHANGED <<configured, clock, ticks, cachedToken, tokenInFlight, tokensIssued,
                           quoteCache, finCache, batch, tickers, index, tasks, results,
                           fibers, retval, spotFailAt>>

\* sleep(400 + attempt * 300) of refresh r is over: the next attempt, or the throw
BackoffDone(r) ==
  /\ UNCHANGED aux
  /\ r \in DOMAIN refreshes
  /\ refreshes[r].phase = "backoff"
  /\ IF refreshes[r].attempt + 1 < TOKEN_ATTEMPTS
       THEN /\ refreshes' = [refreshes EXCEPT ![r].phase = "fetch",
                                               ![r].attempt = refreshes[r].attempt + 1]
            /\ UNCHANGED <<configured, clock, ticks, cachedToken, tokenInFlight, tokensIssued,
                           quoteCache, finCache, batch, tickers, index, tasks, results,
                           fibers, retval, spotFailAt>>
       ELSE RefreshFails(r, refreshes[r].lastError)

\* ----------------------------------------------------------- quote fetcher

\* the snapshot computeMarketScore returns below 60 bars
DegradedSnapshot ==
  [marketScore |-> 50, rsi |-> Null, ma20 |-> Null, ma60 |-> Null,
   volRatio |-> Null, atrPct |-> Null]

\* ------------------------------------------------------------ market score
\* computeMarketScore and its helpers.  A daily bar is [close, high, low,
\* volume] with integer fields; quotients are kept exact as [n, d] with d > 0
\* (the code computes them in double precision).

Q(n, d) == [n |-> n, d |-> d]
\* a > b on quotients
Gt(a, b) == a.n * b.d > b.n * a.d
Abs(x) == IF x < 0 THEN 0 - x ELSE x
Max(a, b) == IF a > b THEN a ELSE b

RECURSIVE SumSeq(_)
SumSeq(values) == IF values = <<>> THEN 0 ELSE Head(values) + SumSeq(Tail(values))

\* values.slice(values.length - k), for k <= values.length
LastOf(values, k) == SubSeq(values, Len(values) - k + 1, Len(values))

sma(values, period) ==
  IF Len(values) < period THEN Null
  ELSE Some(Q(SumSeq(LastOf(values, period)), period))

\* computeRsi14 with the two accumulators exchanged
computeRsi14_swapped(closes) ==
  IF Len(closes) < 15 THEN Null
  ELSE LET change(i) == closes[i] - closes[i - 1]
           losses == SumSeq([k \in 1..14 |->
                              LET c == change(Len(closes) - 14 + k) IN IF c >= 0 THEN c ELSE 0])
           gains == SumSeq([k \in 1..14 |->
                             LET c == change(Len(closes) - 14 + k) IN IF c >= 0 THEN 0 ELSE Abs(c)])
       IN  IF losses = 0 THEN Some(Q(100, 1))
           ELSE Some(Q(100 * gains, gains + losses))

\* 100 - 100 / (1 + gains / losses) is 100 * gains / (gains + losses)
computeRsi14(closes) ==
  IF Len(closes) < 15 THEN Null
  ELSE LET change(i) == closes[i] - closes[i - 1]
           gains == SumSeq([k \in 1..14 |->
                             LET c == change(Len(closes) - 14 + k) IN IF c >= 0 THEN c ELSE 0])
           losses == SumSeq([k \in 1..14 |->
                              LET c == change(Len(closes) - 14 + k) IN IF c >= 0 THEN 0 ELSE Abs(c)])
       IN  IF losses = 0 THEN Some(Q(100, 1))
           ELSE Some(Q(100 * gains, gains + losses))

\* closes are positive (fetchDomesticDailyBars keeps the bars with close > 0)
computeAtrPct(bars) ==
  IF Len(bars) < 15 THEN Null
  ELSE LET recent == LastOf(bars, 14)
           tr(i) ==
             LET bar == recent[i]
                 prevClose == IF i = 1 THEN bar.close ELSE recent[i - 1].close
             IN  Max(bar.high - bar.low,
                     Max(Abs(bar.high - prevClose), Abs(bar.low - prevClose)))
           sum == SumSeq([i \in 1..14 |-> tr(i)])
           close == bars[Len(bars)].close
           lastClose == IF close # 0 THEN close ELSE 1
       IN  Some(Q(sum, 14 * lastClose))

\* scoreTrend that compares the averages the wrong way round
scoreTrend_inverted(closes) ==
  LET ma20 == sma(closes, 20)
      ma60 == sma(closes, 60)
      lastClose == closes[Len(closes)]
  IN  (IF IsSome(ma20) THEN (IF Gt(Q(lastClose, 1), ma20[1]) THEN 5 ELSE -5) ELSE 0)
      + (IF IsSome(ma20) /\ IsSome(ma60)
           THEN (IF Gt(ma60[1], ma20[1]) THEN 5 ELSE -5) ELSE 0)

scoreTrend(closes) ==
  LET ma20 == sma(closes, 20)
      ma60 == sma(closes, 60)
      lastClose == closes[Len(closes)]
  IN  (IF IsSome(ma20) THEN (IF Gt(Q(lastClose, 1), ma20[1]) THEN 5 ELSE -5) ELSE 0)
      + (IF IsSome(ma20) /\ IsSome(ma60)
           THEN (IF Gt(ma20[1], ma60[1]) THEN 5 ELSE -5) ELSE 0)

\* Math.max(-20, Math.min(20, change10 * 50))
scoreMomentum(closes) ==
  IF Len(closes) < 11 THEN Q(0, 1)
  ELSE LET lastClose == closes[Len(closes)]
           before == closes[Len(closes) - 10]
           m == Q(50 * (lastClose - before), before)
       IN  IF Gt(m, Q(20, 1)) THEN Q(20, 1)
           ELSE IF Gt(Q(-20, 1), m) THEN Q(-20, 1) ELSE m

\* avg3 && avg20 ? avg3 / avg20 : undefined, for volumes that are not negative
volRatioOf(volumes) ==
  LET sum3 == IF Len(volumes) >= 3 THEN SumSeq(LastOf(volumes, 3)) ELSE 0
      sum20 == IF Len(volumes) >= 20 THEN SumSeq(LastOf(volumes, 20)) ELSE 0
  IN  IF sum3 # 0 /\ sum20 # 0 THEN Some(Q(20 * sum3, 3 * sum20)) ELSE Null

scoreVolume(volRatio) ==
  IF volRatio = Null THEN 0
  ELSE IF Gt(volRatio[1], Q(2, 1)) THEN 10
  ELSE IF Gt(volRatio[1], Q(3, 2)) THEN 6
  ELSE IF Gt(Q(1, 2), volRatio[1]) THEN -6
  ELSE 0

scoreRsi(rsi) ==
  IF rsi = Null THEN 0
  ELSE IF Gt(rsi[1], Q(75, 1)) THEN -7
  ELSE IF Gt(Q(25, 1), rsi[1]) THEN -6
  ELSE 0

scoreVolatility(atrPct) ==
  IF atrPct = Null THEN 0
  ELSE IF Gt(atrPct[1], Q(10, 100)) THEN -7
  ELSE IF Gt(atrPct[1], Q(7, 100)) THEN -4
  ELSE 0

ClosesOf(bars) == [i \in 1..Len(bars) |-> bars[i].close]
VolumesOf(bars) == [i \in 1..Len(bars) |-> bars[i].volume]

\* raw = scoreTrend + scoreMomentum + scoreVolume + scoreRsi + scoreVolatility
rawScore(bars) ==
  LET closes == ClosesOf(bars)
      m == scoreMomentum(closes)
      whole == scoreTrend(closes) + scoreVolume(volRatioOf(VolumesOf(bars)))
                 + scoreRsi(computeRsi14(closes)) + scoreVolatility(computeAtrPct(bars))
  IN  Q(whole * m.d + m.n, m.d)

\* Math.round: the nearest integer, a half rounds up
MathRound(q) == (2 * q.n + q.d) \div (2 * q.d)

\* computeMarketScore without the clamp to [0, 100]
computeMarketScore_unclamped(bars) ==
  IF Len(bars) < 60 THEN DegradedSnapshot
  ELSE LET closes == ClosesOf(bars)
           raw == rawScore(bars)
       IN  [marketScore |-> MathRound(Q((raw.n + 30 * raw.d) * 100, 60 * raw.d)),
            rsi |-> computeRsi14(closes),
            ma20 |-> sma(closes, 20),
            ma60 |-> sma(closes, 60),
            volRatio |-> volRatioOf(VolumesOf(bars)),
            atrPct |-> computeAtrPct(bars)]

computeMarketScore(bars) ==
  IF Len(bars) < 60 THEN DegradedSnapshot
  ELSE LET closes == ClosesOf(bars)
           raw == rawScore(bars)
           marketScore == MathRound(Q((raw.n + 30 * raw.d) * 100, 60 * raw.d))
       IN  [marketScore |-> Max(0, Min(100, marketScore)),
            rsi |-> computeRsi14(closes),
            ma20 |-> sma(closes, 20),
            ma60 |-> sma(closes, 60),
            volRatio |-> volRatioOf(VolumesOf(bars)),
            atrPct |-> computeAtrPct(bars)]

\* The bar sequences the functions are applied to.  A sequence of n bars is
\* given by the course of its closes, the width of its daily ranges and the
\* course of its volumes; the bars are in the order of their dates.
CloseShapes == {"flat", "rising", "surging", "rally", "falling", "crashing"}
RangeShapes == {"tight", "medium", "wide", "missing"}
VolumeShapes == {"steady", "surge", "swell", "dry", "halted", "haltedNow"}
BarLengths == {14, 15, 19, 20, 59, 60, 61}

CloseAt(shape, i, n) ==
  LET k == i - (n - 14)
  IN  CASE shape = "flat" -> 100
        [] shape = "rising" -> 100 + i
        [] shape = "surging" -> 100 + 20 * i
        [] shape = "rally" ->
             IF k <= 0 THEN 100 ELSE 100 + 10 * k + (IF k % 2 = 1 THEN 30 ELSE 0)
        [] shape = "falling" -> 2000 - 20 * i
        [] OTHER -> IF k <= 0 THEN 300 ELSE 300 - 20 * k

HighAt(shape, close) ==
  CASE shape = "tight" -> close + 1
    [] shape = "medium" -> close + close \div 25
    [] shape = "wide" -> close + close \div 10
    [] OTHER -> 0

LowAt(shape, close) ==
  CASE shape = "tight" -> close - 1
    [] shape = "medium" -> close - close \div 25
    [] shape = "wide" -> close - close \div 10
    [] OTHER -> 0

VolumeAt(shape, i, n) ==
  LET recent == i > n - 3
  IN  CASE shape = "steady" -> 1000
        [] shape = "surge" -> IF recent THEN 5000 ELSE 1000
        [] shape = "swell" -> IF recent THEN 1800 ELSE 1000
        [] shape = "dry" -> IF recent THEN 300 ELSE 1000
        [] shape = "halted" -> 0
        [] OTHER -> IF recent THEN 0 ELSE 1000

BarShapes ==
  [closes : CloseShapes, range : RangeShapes, volumes : VolumeShapes, n : BarLengths]

BarsOf(shape) ==
  [i \in 1..shape.n |->
     LET close == CloseAt(shape.closes, i, shape.n)
     IN  [close |-> close,
          high |-> HighAt(shape.range, close),
          low |-> LowAt(shape.range, close),
          volume |-> VolumeAt(shape.volumes, i, shape.n)]]

\* n bars of a symbol that does not move
QuietBars(n) == [closes |-> "flat", range |-> "tight", volumes |-> "steady", n |-> n]

\* technicalOf without the test of the length
technicalOf_always(dailyBars) == Some(computeMarketScore(dailyBars))

\* dailyBars.length >= 20 ? computeMarketScore(dailyBars) : undefined
technicalOf(dailyBars) ==
  IF Len(dailyBars) >= 20 THEN Some(computeMarketScore(dailyBars)) ELSE Null

\* DomesticQuoteResult without `|| "Domestic quote failed"`
DomesticQuoteResult_noFallback(s, f, a, t) ==
  LET ticker == s.fibers[f].ticker
  IN  IF a.rt_cd # "0"
        THEN Resolve(s, f, [BlankQuote(ticker) EXCEPT !.note = Some(a.msg1)], t)
        ELSE LET quote == [BlankQuote(ticker) EXCEPT
                             !.price = parseNumber(a.stck_prpr),
                             !.changePercent = parseNumber(Raw("num", 1)),
                             !.volume = parseNumber(Raw("num", 1000))]
             IN  Resolve([s EXCEPT !.quoteCache =
                            CacheSet(s.quoteCache, ticker, quote, t, QUOTE_TTL_MS)],
                         f, quote, t)

\* DomesticQuoteResult that stores the failed result like a quote
DomesticQuoteResult_cachesFailure(s, f, a, t) ==
  LET ticker == s.fibers[f].ticker
      quote == IF a.rt_cd # "0"
                 THEN [BlankQuote(ticker) EXCEPT
                         !.note = Some(OrElse(a.msg1, "Domestic quote failed"))]
                 ELSE [BlankQuote(ticker) EXCEPT
                         !.price = parseNumber(a.stck_prpr),
                         !.changePercent = parseNumber(Raw("num", 1)),
                         !.volume = parseNumber(Raw("num", 1000))]
  IN  Resolve([s EXCEPT !.quoteCache =
                 CacheSet(s.quoteCache, ticker, quote, t, QUOTE_TTL_MS)],
              f, quote, t)

\* fetchDomesticQuote from the answer on
DomesticQuoteResult(s, f, a, t) ==
  LET ticker == s.fibers[f].ticker
  IN  IF a.rt_cd # "0"
        THEN Resolve(s, f, [BlankQuote(ticker) EXCEPT
                              !.note = Some(OrElse(a.msg1, "Domestic quote failed"))], t)
        ELSE LET quote == [BlankQuote(ticker) EXCEPT
                             !.price = parseNumber(a.stck_prpr),
                             !.changePercent = parseNumber(Raw("num", 1)),
                             !.volume = parseNumber(Raw("num", 1000))]
             IN  Resolve([s EXCEPT !.quoteCache =
                            CacheSet(s.quoteCache, ticker, quote, t, QUOTE_TTL_MS)],
                         f, quote, t)

\* DomesticFinancialsResult that also stores the absence of fundamentals
DomesticFinancialsResult_storeAlways(s, f, a, t) ==
  LET ticker == s.fibers[f].ticker
      fundamentals == [roe |-> parseNumber(Raw("num", 9)),
                       eps |-> parseNumber(Raw("num", 5000)),
                       bps |-> parseNumber(Raw("text", 0))]
      s1 == [s EXCEPT !.finCache = CacheSet(s.finCache, ticker, fundamentals, t, FIN_TTL_MS)]
  IN  IF a.rt_cd # "0" \/ a.rows = 0
        THEN Resolve(s1, f, Null, t)
        ELSE Resolve(s1, f, Some(fundamentals), t)

\* fetchDomesticFinancials from the answer on
DomesticFinancialsResult(s, f, a, t) ==
  LET ticker == s.fibers[f].ticker
  IN  IF a.rt_cd # "0" \/ a.rows = 0
        THEN Resolve(s, f, Null, t)
        ELSE LET fundamentals == [roe |-> parseNumber(Raw("num", 9)),
                                  eps |-> parseNumber(Raw("num", 5000)),
                                  bps |-> parseNumber(Raw("text", 0))]
             IN  Resolve([s EXCEPT !.finCache =
                            CacheSet(s.finCache, ticker, fundamentals, t, FIN_TTL_MS)],
                         f, Some(fundamentals), t)

\* fetchDomesticDailyBars from the answer on, and the technical snapshot the
\* task derives from the bars
DomesticDailyBarsResult(s, f, a, t) ==
  LET n == IF a.rt_cd # "0" THEN 0 ELSE a.rows
  IN  Resolve(s, f, technicalOf(BarsOf(QuietBars(n))), t)

\* fetchOverseasQuote from the answer of one exchange on
OverseasQuoteResult(s, f, a, t) ==
  LET fb == s.fibers[f]
      ticker == fb.ticker
      exchanges == Exchanges(ticker)
      price == parseNumber(a.last)
  IN  IF a.rt_cd # "0" \/ ~IsSome(price) \/ price[1] = 0
        THEN IF fb.ex < Len(exchanges)
               THEN [s EXCEPT !.fibers[f] = NewFiber(ticker, fb.ex + 1)]
               ELSE Resolve(s, f, [BlankQuote(ticker) EXCEPT
                                     !.note = Some("Overseas quote failed or unavailable")], t)
        ELSE LET quote == [BlankQuote(ticker) EXCEPT
                             !.price = price,
                             !.changePercent = parseNumber(Raw("num", 2)),
                             !.volume = parseNumber(Raw("blank", 0)),
                             !.note = Some(exchanges[fb.ex])]
             IN  Resolve([s EXCEPT !.quoteCache =
                            CacheSet(s.quoteCache, ticker, quote, t, QUOTE_TTL_MS)],
                         f, quote, t)

FetchResult(s, f, a, t) ==
  CASE f[3] = "quote" -> DomesticQuoteResult(s, f, a, t)
    [] f[3] = "fin" -> DomesticFinancialsResult(s, f, a, t)
    [] f[3] = "bars" -> DomesticDailyBarsResult(s, f, a, t)
    [] OTHER -> OverseasQuoteResult(s, f, a, t)

\* ----------------------------------------------------------------- actions

\* fetchQuotes(tk) is invoked
FetchQuotes(tk) ==
  /\ UNCHANGED aux
  /\ ~Pending
  /\ batch' = batch + 1
  /\ tickers' = tk
  /\ IF Len(tk) = 0
       THEN /\ retval' = Some(<<>>)
            /\ index' = 0 /\ tasks' = <<>> /\ results' = <<>>
            /\ UNCHANGED <<fibers, quoteCache, finCache>>
       ELSE IF ~isConfigured
         THEN /\ retval' = Some([i \in 1..Len(tk) |->
                                   Some([BlankQuote(tk[i]) EXCEPT
                                           !.note = Some("KIS API keys not configured")])])
              /\ index' = 0 /\ tasks' = <<>> /\ results' = <<>>
              /\ UNCHANGED <<fibers, quoteCache, finCache>>
         ELSE Commit(StartWorkers([Cur EXCEPT !.tickers = tk, !.batch = batch + 1, !.index = 0,
                                               !.tasks = [i \in 1..Len(tk) |-> UnclaimedTask],
                                               !.results = <<>>],
                                  Min(limit, Len(tk)), clock),
                     TRUE)
  /\ UNCHANGED <<configured, clock, ticks, cachedToken, tokenInFlight, refreshes,
                 tokensIssued, spotFailAt>>

\* the pacing sleep(120) of coroutine f is over: it enters authorizedFetch
SleepDone(f) ==
  /\ UNCHANGED aux
  /\ f \in DOMAIN fibers
  /\ fibers[f].pc = "sleep"
  /\ LET r == authorizedFetch(fibers[f], cachedToken, tokenInFlight, refreshes, clock)
     IN  /\ fibers' = [fibers EXCEPT ![f] = r.fiber]
         /\ tokenInFlight' = r.inFlight
         /\ refreshes' = r.refreshes
  /\ UNCHANGED <<configured, clock, ticks, cachedToken, tokensIssued, quoteCache, finCache,
                 batch, tickers, index, tasks, results, retval, spotFailAt>>

\* The headers of the answer to the data call of coroutine f arrive: fetch
\* resolves, `finally { clearTimeout(timeout) }` of fetchWithTimeout disarms the
\* abort, and the coroutine awaits response.json() with no timer left.
HeadersArrive(f) ==
  /\ UNCHANGED aux
  /\ f \in DOMAIN fibers
  /\ fibers[f].pc = "call"
  /\ fibers' = [fibers EXCEPT ![f].pc = "json"]
  /\ UNCHANGED <<configured, clock, ticks, cachedToken, tokenInFlight, refreshes, tokensIssued,
                 quoteCache, finCache, batch, tickers, index, tasks, results, retval, spotFailAt>>

\* the data call of coroutine f is answered: the body is there and parsed, or
\* fetch or response.json() rejects
DataResponse(f, a) ==
  /\ UNCHANGED aux
  /\ f \in DOMAIN fibers
  /\ fibers[f].pc \in {"call", "json"}
  /\ CASE a.throws ->
            /\ Commit(Reject(Cur, f, a.message, clock), Pending)
            /\ UNCHANGED <<cachedToken, tokenInFlight, refreshes, spotFailAt>>
       [] ~a.throws /\ a.status = 401 /\ fibers[f].retry ->
            LET r == authorizedFetch(RetryFiber(fibers[f], tokensIssued),
                                     Null, tokenInFlight, refreshes, clock)
            IN  /\ cachedToken' = Null
                /\ fibers' = [fibers EXCEPT ![f] = r.fiber]
                /\ tokenInFlight' = r.inFlight
                /\ refreshes' = r.refreshes
                /\ UNCHANGED <<quoteCache, finCache, index, tasks, results, retval, spotFailAt>>
       [] OTHER ->
            LET failed == f[3] = "quote" /\ a.rt_cd # "0"
                s0 == IF failed /\ f[1] = batch
                        THEN [Cur EXCEPT !.tasks[f[2]].spotFailed = TRUE] ELSE Cur
            IN  /\ Commit(FetchResult(s0, f, a, clock), Pending)
                /\ spotFailAt' = IF failed
                                   THEN [spotFailAt EXCEPT ![fibers[f].ticker] =
                                           Some([at |-> clock, batch |-> batch])]
                                   ELSE spotFailAt
                /\ UNCHANGED <<cachedToken, tokenInFlight, refreshes>>
  /\ UNCHANGED <<configured, clock, ticks, tokensIssued, batch, tickers>>

\* time passes
Tick(d) ==
  /\ UNCHANGED aux
  /\ ticks < MaxTicks
  /\ d > 0
  /\ clock' = clock + d
  /\ ticks' = ticks + 1
  /\ UNCHANGED <<configured, cachedToken, tokenInFlight, refreshes, tokensIssued, quoteCache,
                 finCache, batch, tickers, index, tasks, results, fibers, retval, spotFailAt>>

\* kis.ts as the module is loaded
InitKis ==
  /\ configured \in BOOLEAN
  /\ clock = 0
  /\ ticks = 0
  /\ cachedToken = Null
  /\ tokenInFlight = Null
  /\ refreshes = <<>>
  /\ tokensIssued = 0
  /\ quoteCache = [t \in NormTickers |-> Null]
  /\ finCache = [t \in NormTickers |-> Null]
  /\ batch = 0
  /\ tickers = <<>>
  /\ index = 0
  /\ tasks = <<>>
  /\ results = <<>>
  /\ fibers = <<>>
  /\ retval = Null
  /\ spotFailAt = [t \in NormTickers |-> Null]

\* no call of runWithConcurrency yet
IdlePool ==
  [phase |-> "idle", tasks |-> <<>>, limit |-> 0, index |-> 0, results |-> <<>>,
   workers |-> <<>>, ran |-> {}]

Init ==
  /\ InitKis
  /\ limit = CONCURRENCY_LIMIT
  /\ oracle = Null
  /\ pool = IdlePool
  /\ calc = Null

\* One invocation of fetchQuotes, every answer of the upstream.
Next ==
  \/ \E tk \in Batches : batch < 1 /\ FetchQuotes(tk)
  \/ \E f \in DOMAIN fibers : SleepDone(f)
  \/ \E f \in DOMAIN fibers : \E a \in AnswersOf(f[3]) : DataResponse(f, a)
  \/ \E r \in DOMAIN refreshes : \E a \in TokenAnswers : TokenResponse(r, a)
  \/ \E r \in DOMAIN refreshes : BackoffDone(r)
  \/ \E d \in Deltas : Tick(d)

Spec == Init /\ [][Next]_vars

\* The answers of an upstream that is reachable and accepts the token: no
\* call rejects, no call is unauthorized.
IsCalm(a) == ~a.throws /\ a.status # 401

CalmTokenAnswers ==
  {a \in TokenAnswers : ~a.throws /\ (a.access_token => a.expires_in = Null)}

\* Repeated invocations of fetchQuotes for one domestic symbol, with a calm
\* upstream.
NextRefetch ==
  \/ \E tk \in RefetchBatches : batch < MaxBatches /\ FetchQuotes(tk)
  \/ \E f \in DOMAIN fibers : SleepDone(f)
  \/ \E f \in DOMAIN fibers : \E a \in {x \in AnswersOf(f[3]) : IsCalm(x)} : DataResponse(f, a)
  \/ \E r \in DOMAIN refreshes : \E a \in CalmTokenAnswers : TokenResponse(r, a)
  \/ \E r \in DOMAIN refreshes : BackoffDone(r)
  \/ \E d \in Deltas : Tick(d)

SpecRefetch == Init /\ [][NextRefetch]_vars

\* Repeated invocations of fetchQuotes for one symbol, with a calm upstream,
\* the clock advancing by the time to live of one of the caches.
NextCache ==
  \/ \E tk \in CacheBatches : batch < MaxBatches /\ FetchQuotes(tk)
  \/ \E f \in DOMAIN fibers : SleepDone(f)
  \/ \E f \in DOMAIN fibers : \E a \in {x \in AnswersOf(f[3]) : IsCalm(x)} : DataResponse(f, a)
  \/ \E r \in DOMAIN refreshes : \E a \in CalmTokenAnswers : TokenResponse(r, a)
  \/ \E r \in DOMAIN refreshes : BackoffDone(r)
  \/ \E d \in CacheDeltas : Tick(d)

SpecCache == Init /\ [][NextCache]_vars

\* Repeated invocations of fetchQuotes for one domestic symbol, 20 s apart at
\* most, with an upstream whose spot-quote call may reject and whose
\* fundamentals endpoint answers with a row, with no row or with a failure.
LingerAnswers(kind) ==
  CASE kind = "quote" -> {a \in QuoteAnswers : a.throws \/ (a.status = 200 /\ a.rt_cd = "0")}
    [] kind = "fin" -> {a \in FinAnswers : IsCalm(a)}
                         \cup {[throws |-> FALSE, message |-> "", status |-> 500, rt_cd |-> "1", rows |-> 0]}
    [] OTHER -> {a \in AnswersOf(kind) : IsCalm(a) /\ a.rt_cd = "0" /\ a.rows = 20}

NextLinger ==
  \/ batch < MaxBatches /\ FetchQuotes(<<T_KR>>)
  \/ \E f \in DOMAIN fibers : SleepDone(f)
  \/ \E f \in DOMAIN fibers : \E a \in LingerAnswers(f[3]) : DataResponse(f, a)
  \/ \E r \in DOMAIN refreshes : \E a \in CalmTokenAnswers : TokenResponse(r, a)
  \/ \E r \in DOMAIN refreshes : BackoffDone(r)
  \/ Tick(QUOTE_TTL_MS)

SpecLinger == Init /\ [][NextLinger]_vars

\* normalizeTicker alone, and one invocation of fetchQuotes for one string of
\* the batches, with a calm upstream.  calc holds the string.  The strings: no,
\* one to seven digits, letters in either case, digits and letters, a blank
\* inside, each with and without blanks around it.
TickerInputs ==
  LET cores == { <<>>, <<"0">>, <<"5", "9">>, <<"5", "9", "3">>, T_KR_SHORT,
                 <<"0", "5", "9", "3", "0">>, T_KR, <<"1">> \o T_KR,
                 T_US, <<"a", "a", "p", "l">>, T_US_UNMAPPED, <<"z", "Z">>,
                 <<"5", "9", "a">>, <<"5", "9", " ", "3", "0">> }
      blanks == { <<>>, <<" ">>, <<" ", " ">> }
  IN  { lead \o core \o trail : lead \in blanks, core \in cores, trail \in blanks }

InitTicker ==
  /\ InitKis /\ configured
  /\ limit = CONCURRENCY_LIMIT
  /\ oracle = Null
  /\ pool = IdlePool
  /\ \E t \in TickerInputs : calc = [ticker |-> t, fn |-> "none", out |-> Null]

NormalizeTicker ==
  /\ calc.fn = "none"
  /\ calc' = [calc EXCEPT !.fn = "normalizeTicker", !.out = normalizeTicker(calc.ticker)]
  /\ UNCHANGED <<kisVars, limit, oracle, pool>>

NextTicker ==
  \/ NormalizeTicker
  \/ batch < 1 /\ calc.ticker \in InputTickers /\ FetchQuotes(<<calc.ticker>>)
  \/ \E f \in DOMAIN fibers : SleepDone(f)
  \/ \E f \in DOMAIN fibers : \E a \in {x \in AnswersOf(f[3]) : IsCalm(x)} : DataResponse(f, a)
  \/ \E r \in DOMAIN refreshes : \E a \in CalmTokenAnswers : TokenResponse(r, a)
  \/ \E r \in DOMAIN refreshes : BackoffDone(r)

SpecTicker == InitTicker /\ [][NextTicker]_vars

\* One invocation of fetchQuotes for foreign symbols with an upstream that
\* may send the headers of an answer and never finish its body.  Timers fire,
\* and every fetch settles, by an answer or by the abort after
\* REQUEST_TIMEOUT_MS, and so does every token call; no back-off sleep lasts
\* forever; nothing makes a body arrive.
HangAnswers == {a \in OverseasAnswers : a.status # 401}

NextHang ==
  \/ batch < 1 /\ FetchQuotes(<<T_US, T_US_RAW, T_US_UNMAPPED>>)
  \/ \E f \in DOMAIN fibers : SleepDone(f)
  \/ \E f \in DOMAIN fibers : HeadersArrive(f)
  \/ \E f \in DOMAIN fibers : \E a \in HangAnswers : DataResponse(f, a)
  \/ \E r \in DOMAIN refreshes : \E a \in CalmTokenAnswers : TokenResponse(r, a)
  \/ \E r \in DOMAIN refreshes : BackoffDone(r)

FetchSettles ==
  \E f \in DOMAIN fibers :
    /\ fibers[f].pc = "call"
    /\ HeadersArrive(f) \/ \E a \in HangAnswers : DataResponse(f, a)

SpecHang ==
  /\ Init /\ [][NextHang]_vars
  /\ WF_vars(\E f \in DOMAIN fibers : SleepDone(f))
  /\ WF_vars(FetchSettles)
  /\ WF_vars(\E r \in DOMAIN refreshes : \E a \in CalmTokenAnswers : TokenResponse(r, a))
  /\ []<>(\A r \in DOMAIN refreshes : refreshes[r].phase # "backoff")

\* Repeated invocations of fetchQuotes for one foreign symbol, with a calm
\* upstream whose `output.last` is any kind of value: a positive or a negative
\* number, zero, the empty string, or something that is not a number.
ForeignBatches == { <<T_US>>, <<T_US_UNMAPPED>> }

LastValues == { Raw("num", 190), Raw("num", 0 - 190), Raw("num", 0), Raw("blank", 0), Raw("text", 0) }

ForeignAnswers ==
  { [throws |-> FALSE, message |-> "", status |-> 200, rt_cd |-> "0", last |-> r]
      : r \in LastValues }
  \cup { [throws |-> FALSE, message |-> "", status |-> 500, rt_cd |-> "1", last |-> Raw("text", 0)] }

NextForeign ==
  \/ \E tk \in ForeignBatches : batch < MaxBatches /\ FetchQuotes(tk)
  \/ \E f \in DOMAIN fibers : SleepDone(f)
  \/ \E f \in DOMAIN fibers : \E a \in ForeignAnswers : DataResponse(f, a)
  \/ \E r \in DOMAIN refreshes : \E a \in CalmTokenAnswers : TokenResponse(r, a)
  \/ \E r \in DOMAIN refreshes : BackoffDone(r)
  \/ \E d \in Deltas : Tick(d)

SpecForeign == Init /\ [][NextForeign]_vars

\* ------------------------------------------------ the worker pool alone
\* runWithConcurrency<T>(tasks, limit) with tasks of any kind: a task is an
\* async function that fulfils ("ok") or rejects ("throw").  pool.ran is
\* history: the indices of the tasks that were called.

\* worker w at its loop test: it claims the next index and awaits the task,
\* or it ends
PoolWorkerLoop(p, w) ==
  IF p.index < Len(p.tasks)
    THEN [p EXCEPT !.index = p.index + 1,
                   !.ran = p.ran \cup {p.index + 1},
                   !.workers[w] = [status |-> "awaiting", current |-> p.index + 1]]
    ELSE [p EXCEPT !.workers[w] = [status |-> "fulfilled", current |-> 0]]

\* Array.from({ length }, async () => ...): the workers start one after the other
RECURSIVE PoolStartWorkers(_, _)
PoolStartWorkers(p, w) ==
  IF w > Len(p.workers) THEN p ELSE PoolStartWorkers(PoolWorkerLoop(p, w), w + 1)

\* await Promise.allSettled(workers); return results
PoolSettle(p) ==
  IF \A w \in 1..Len(p.workers) : p.workers[w].status # "awaiting"
    THEN [p EXCEPT !.phase = "returned"]
    ELSE p

\* the sequences of at most n task outcomes
RECURSIVE TaskLists(_)
TaskLists(n) ==
  IF n = 0 THEN {<<>>}
  ELSE LET shorter == TaskLists(n - 1)
       IN  shorter \cup { Append(ts, o) : ts \in {x \in shorter : Len(x) = n - 1},
                                          o \in {"ok", "throw"} }

PoolLimits == {1, 2, 3}

\* runWithConcurrency(ts, lim) is called
RunWithConcurrency(ts, lim) ==
  /\ pool.phase = "idle"
  /\ pool' =
       PoolSettle(PoolStartWorkers(
         [phase |-> "running", tasks |-> ts, limit |-> lim, index |-> 0, results |-> <<>>,
          workers |-> [w \in 1..Min(lim, Len(ts)) |-> [status |-> "created", current |-> 0]],
          ran |-> {}], 1))
  /\ UNCHANGED <<kisVars, limit, oracle, calc>>

\* the task worker w awaits settles: results[current] = value and the loop
\* goes on, or the rejection leaves the worker's async function
TaskSettles(w) ==
  /\ pool.phase = "running"
  /\ w \in 1..Len(pool.workers)
  /\ pool.workers[w].status = "awaiting"
  /\ LET current == pool.workers[w].current
     IN  pool' =
           IF pool.tasks[current] = "ok"
             THEN PoolSettle(PoolWorkerLoop(
                    [pool EXCEPT !.results = ArraySet(pool.results, current, current)], w))
             ELSE PoolSettle([pool EXCEPT !.workers[w].status = "rejected"])
  /\ UNCHANGED <<kisVars, limit, oracle, calc>>

NextPool ==
  \/ \E ts \in TaskLists(MaxPoolTasks) : \E lim \in PoolLimits : RunWithConcurrency(ts, lim)
  \/ \E w \in 1..Len(pool.workers) : TaskSettles(w)

SpecPool == Init /\ [][NextPool]_vars

\* ------------------------------------------- the scoring functions alone
\* calc holds the bars a function is applied to, the function and its result.

InitScore ==
  /\ InitKis /\ configured
  /\ limit = CONCURRENCY_LIMIT
  /\ oracle = Null
  /\ pool = IdlePool
  /\ \E shape \in BarShapes : calc = [bars |-> shape, fn |-> "none", out |-> Null]

ComputeMarketScore ==
  /\ calc.fn = "none"
  /\ calc' = [calc EXCEPT !.fn = "computeMarketScore",
                          !.out = computeMarketScore(BarsOf(calc.bars))]
  /\ UNCHANGED <<kisVars, limit, oracle, pool>>

ComputeRsi14 ==
  /\ calc.fn = "none"
  /\ calc' = [calc EXCEPT !.fn = "computeRsi14",
                          !.out = computeRsi14(ClosesOf(BarsOf(calc.bars)))]
  /\ UNCHANGED <<kisVars, limit, oracle, pool>>

\* the technical snapshot the domestic task attaches to its Quote
Technical ==
  /\ calc.fn = "none"
  /\ calc' = [calc EXCEPT !.fn = "technical", !.out = technicalOf(BarsOf(calc.bars))]
  /\ UNCHANGED <<kisVars, limit, oracle, pool>>

NextScore == ComputeMarketScore \/ ComputeRsi14 \/ Technical

SpecScore == InitScore /\ [][NextScore]_vars

\* ------------------------------------------------- candidate verification
\* src/src/lib/analysis.ts: the candidates of a parsed model response are
\* normalised (toCandidates), checked against the ticker universes
\* (applyVerification) and cut to MAX_CANDIDATES (clampCandidates).

MAX_CANDIDATES == 12

\* kr.json, us.json and kr_name_map.json as the universe build script writes
\* them: six-digit codes, upper-case symbols, and a map from each normalised
\* listing name (never empty) to the code of its first listing.
KR_OTHER == <<"0", "0", "0", "6", "6", "0">>
KR_UNLISTED == <<"9", "9", "9", "9", "9", "9">>
T_US_LOWER == <<"a", "a", "p", "l">>
T_BLANK == <<" ">>

KEY_LAPAZ == <<"L", "A", "P", "A", "Z">>
KEY_ZAPPA == <<"Z", "A", "P", "P", "A">>

krSet == { toUpperCase(ticker) : ticker \in {T_KR, KR_OTHER} }
usSet == { toUpperCase(ticker) : ticker \in {T_US} }
krNameMapRecord == (KEY_LAPAZ :> T_KR) @@ (KEY_ZAPPA :> KR_OTHER)

\* reading a property of a plain object: undefined when the key is absent
PropertyOf(record, key) == IF key \in DOMAIN record THEN record[key] ELSE Null

\* the character class [\s\(\)\[\]\.\-X] of normalizeName, X being the
\* one character U+CA0C that analysis.ts has in the place of a middle dot
NameNoise == {" ", "\t", "(", ")", "[", "]", ".", "-", "U+CA0C"}

normalizeName(value) ==
  trim(SelectSeq(toUpperCase(value), LAMBDA c : c \notin NameNoise))

\* normalizeName of the universe build script, which writes the keys of
\* kr_name_map.json: its character class ends with the middle dot U+00B7
buildNormalizeName(value) ==
  trim(SelectSeq(toUpperCase(value),
                 LAMBDA c : c \notin {" ", "\t", "(", ")", "[", "]", ".", "-", "U+00B7"}))

normalizeMarket(value) == IF value = "KR" \/ value = "US" THEN value ELSE "UNKNOWN"

\* ticker.toUpperCase() is compared with the universe of the market only
validateCandidateTicker_asGiven(ticker, market) ==
  CASE market = "KR" -> ticker \in krSet
    [] market = "US" -> ticker \in usSet
    [] OTHER -> FALSE

validateCandidateTicker(ticker, market) ==
  LET clean == toUpperCase(ticker)
  IN  CASE market = "KR" -> clean \in krSet
        [] market = "US" -> clean \in usSet
        [] OTHER -> FALSE

\* key ? krNameMapRecord[key] : undefined
resolveKrTickerByName(name) ==
  LET key == normalizeName(name)
  IN  IF key # <<>> THEN PropertyOf(krNameMapRecord, key) ELSE Null

\* String(x || "").trim() || fallback
TrimOr(text, fallback) == IF trim(text) # <<>> THEN trim(text) ELSE fallback

Clamp(lo, hi, x) == IF Gt(lo, x) THEN lo ELSE IF Gt(x, hi) THEN hi ELSE x

\* toCandidate with the market tag taken as given, nothing inferred
toCandidate_asTagged(candidate) ==
  [ ticker |-> trim(candidate.ticker),
    name |-> TrimOr(candidate.name, <<"U", "n", "k", "n", "o", "w", "n">>),
    market |-> normalizeMarket(candidate.market),
    rationale |-> TrimOr(candidate.rationale, <<"n", "o", "n", "e">>),
    stageTag |-> TrimOr(candidate.stage_tag, Null),
    score |-> Max(0, Min(100, MathRound(candidate.score))),
    confidence |-> Clamp(Q(0, 1), Q(1, 1), candidate.confidence),
    verified |-> FALSE ]

\* the callback of raw.candidates.map in toCandidates; score and confidence
\* are finite numbers by the schema
toCandidate(candidate) ==
  LET ticker == trim(candidate.ticker)
      providedMarket == normalizeMarket(candidate.market)
      inferredMarket == IF isKrTicker(ticker) THEN "KR"
                        ELSE IF ticker # <<>> THEN "US" ELSE "UNKNOWN"
  IN  [ ticker |-> ticker,
        name |-> TrimOr(candidate.name, <<"U", "n", "k", "n", "o", "w", "n">>),
        market |-> IF providedMarket = "UNKNOWN" THEN inferredMarket
                   ELSE providedMarket,
        rationale |-> TrimOr(candidate.rationale, <<"n", "o", "n", "e">>),
        stageTag |-> TrimOr(candidate.stage_tag, Null),
        score |-> Max(0, Min(100, MathRound(candidate.score))),
        confidence |-> Clamp(Q(0, 1), Q(1, 1), candidate.confidence),
        verified |-> FALSE ]

toCandidates(raw) == [i \in 1..Len(raw) |-> toCandidate(raw[i])]

\* the callback of candidates.map in applyVerification
verifyCandidate_membershipOnly(candidate) ==
  [candidate EXCEPT
     !.verified = validateCandidateTicker(candidate.ticker, candidate.market)]

\* verifyCandidate that marks a name match verified without taking its code
verifyCandidate_keepTicker(candidate) ==
  LET verified == validateCandidateTicker(candidate.ticker, candidate.market)
      corrected == resolveKrTickerByName(candidate.name)
  IN  IF verified \/ candidate.market # "KR"
        THEN [candidate EXCEPT !.verified = verified]
      ELSE [candidate EXCEPT !.verified = (corrected # <<>>)]

verifyCandidate(candidate) ==
  LET verified == validateCandidateTicker(candidate.ticker, candidate.market)
      corrected == resolveKrTickerByName(candidate.name)
  IN  IF verified \/ candidate.market # "KR"
        THEN [candidate EXCEPT !.verified = verified]
      ELSE IF corrected # <<>>
        THEN [candidate EXCEPT !.ticker = corrected, !.market = "KR",
                               !.verified = TRUE]
      ELSE [candidate EXCEPT !.verified = FALSE]

applyVerification(candidates) ==
  [i \in 1..Len(candidates) |-> verifyCandidate(candidates[i])]

clampCandidates_last(candidates) ==
  SubSeq(candidates, Max(1, Len(candidates) - MAX_CANDIDATES + 1), Len(candidates))

clampCandidates(candidates) ==
  SubSeq(candidates, 1, Min(Len(candidates), MAX_CANDIDATES))

\* ---- the inputs: candidate lists of a response that passed AnalysisSchema

MaxCandidates == 14

\* display names: a key as listed, in another case, with blanks and
\* punctuation, with U+CA0C, with a middle dot (U+00B7), a name of
\* punctuation only, a name no listing has, a blank name
RawNames ==
  { KEY_LAPAZ,
    <<"L", "a", "p", "a", "z">>,
    <<"L", "a", " ", "P", "a", "z">>,
    <<"(", "L", "A", ")", ".", "P", "A", "-", "Z">>,
    <<"L", "A", "U+CA0C", "P", "A", "Z">>,
    <<"L", "A", "U+00B7", "P", "A", "Z">>,
    <<"(", ")">>,
    <<"z", "a", "p">>,
    <<" ">> }

RawTickers ==
  {T_KR, KR_UNLISTED, T_US, T_US_LOWER, T_US_RAW, T_US_UNMAPPED, T_BLANK}

RawKinds == RawTickers \X RawNames \X {"KR", "US", "UNKNOWN"}

\* the kind of the one candidate that differs from the others of its list
MarkerKinds ==
  { <<KR_UNLISTED, KEY_LAPAZ, "KR">>,
    <<T_US_LOWER, <<"z", "a", "p">>, "US">>,
    <<T_BLANK, KEY_ZAPPA, "UNKNOWN">> }

\* the i-th raw candidate of a list: its score is its position
RawCandidate(kind, i) ==
  [ ticker |-> kind[1], name |-> kind[2], market |-> kind[3],
    rationale |-> <<"w", "h", "y">>, stage_tag |-> <<>>,
    score |-> Q(i, 1), confidence |-> Q(1, 2) ]

RawList(n, kind, p, marker) ==
  [i \in 1..n |-> RawCandidate(IF i = p THEN marker ELSE kind, i)]

\* -------------------------------------- verification alone (runAnalysis)

InitVerify ==
  /\ InitKis /\ configured
  /\ limit = CONCURRENCY_LIMIT
  /\ oracle = Null
  /\ pool = IdlePool
  /\ \E n \in 0..MaxCandidates, kind \in RawKinds,
        p \in {1, MAX_CANDIDATES, MAX_CANDIDATES + 1}, marker \in MarkerKinds :
       calc = [ raw |-> RawList(n, kind, p, marker), stage |-> "raw",
                parsed |-> <<>>, verified |-> <<>>, out |-> <<>> ]

\* clampCandidates(applyVerification(toCandidates(parsed))), innermost first
ToCandidates ==
  /\ calc.stage = "raw"
  /\ calc' = [calc EXCEPT !.stage = "parsed", !.parsed = toCandidates(calc.raw)]
  /\ UNCHANGED <<kisVars, limit, oracle, pool>>

ApplyVerification ==
  /\ calc.stage = "parsed"
  /\ calc' = [calc EXCEPT !.stage = "verified",
                          !.verified = applyVerification(calc.parsed)]
  /\ UNCHANGED <<kisVars, limit, oracle, pool>>

ClampCandidates ==
  /\ calc.stage = "verified"
  /\ calc' = [calc EXCEPT !.stage = "clamped",
                          !.out = clampCandidates(calc.verified)]
  /\ UNCHANGED <<kisVars, limit, oracle, pool>>

NextVerify == ToCandidates \/ ApplyVerification \/ ClampCandidates

SpecVerify == InitVerify /\ [][NextVerify]_vars

\* --------------------------------- fetchQuotes under any concurrency cap
\* One invocation of fetchQuotes with runWithConcurrency(tasks, limit) for a
\* limit of 1, 2 or 3, against an upstream whose answer to a call depends on
\* the endpoint and the ticker only.  The clock advances, by the time to live
\* of a quote, while no domestic symbol is in the batch.

CapLimits == {1, 2, 3}

\* one domestic symbol twice, three foreign symbols of which two are the same
CapBatches ==
  { <<T_KR_SHORT, T_KR>>,
    <<T_US, T_US_RAW, T_US_UNMAPPED>> }

ForeignTickers == { t \in NormTickers : ~isKrTicker(t) }

\* the answers of an upstream that works
CalmProfile ==
  [ token |-> [throws |-> FALSE, message |-> "", ok |-> TRUE, access_token |-> TRUE,
               expires_in |-> Null],
    quote |-> [throws |-> FALSE, message |-> "", status |-> 200, rt_cd |-> "0", msg1 |-> "",
               stck_prpr |-> Raw("num", 70000)],
    fin |-> [throws |-> FALSE, message |-> "", status |-> 200, rt_cd |-> "0", rows |-> 1],
    bars |-> [throws |-> FALSE, message |-> "", status |-> 200, rt_cd |-> "0", rows |-> 20],
    ovs |-> [t \in ForeignTickers |->
               [throws |-> FALSE, message |-> "", status |-> 200, rt_cd |-> "0",
                last |-> Raw("num", 190)]] ]

\* the number of endpoints whose answer is not the one of CalmProfile
Deviations(p) ==
  Cardinality({k \in {"token", "quote", "fin", "bars"} : p[k] # CalmProfile[k]})
  + Cardinality({t \in ForeignTickers : p.ovs[t] # CalmProfile.ovs[t]})

\* an upstream: one answer of the token endpoint, one of each domestic
\* endpoint, one of the foreign endpoint per ticker; at most one of them is
\* not the answer of CalmProfile
Profiles ==
  { p \in [ token : TokenAnswers, quote : QuoteAnswers, fin : FinAnswers,
            bars : BarsAnswers, ovs : [ForeignTickers -> OverseasAnswers] ] :
      Deviations(p) <= 1 }

\* (a cap above the number of tasks starts the same workers as a cap equal to
\* it: a batch is run with the caps up to its length)
\* the batch tk calls every endpoint whose answer is not the one of CalmProfile
Exercises(tk, p) ==
  /\ (\E k \in {"quote", "fin", "bars"} : p[k] # CalmProfile[k])
       => \E i \in 1..Len(tk) : isKrTicker(normalizeTicker(tk[i]))
  /\ \A t \in ForeignTickers :
       p.ovs[t] # CalmProfile.ovs[t] => \E i \in 1..Len(tk) : normalizeTicker(tk[i]) = t

\* the answer of the upstream to the data call of coroutine f
OracleAnswer(f) ==
  IF f[3] = "ovs" THEN oracle[1].ovs[fibers[f].ticker] ELSE oracle[1][f[3]]

InitCap ==
  /\ InitKis /\ configured
  /\ limit \in CapLimits
  /\ oracle \in { Some(p) : p \in Profiles }
  /\ pool = IdlePool
  /\ calc = Null

NextCap ==
  \/ \E tk \in CapBatches :
       batch < 1 /\ limit <= Len(tk) /\ Exercises(tk, oracle[1]) /\ FetchQuotes(tk)
  \/ \E f \in DOMAIN fibers : SleepDone(f)
  \/ \E f \in DOMAIN fibers : DataResponse(f, OracleAnswer(f))
  \/ \E r \in DOMAIN refreshes : TokenResponse(r, oracle[1].token)
  \/ \E r \in DOMAIN refreshes : BackoffDone(r)
  \/ /\ batch = 1
     /\ \A i \in 1..Len(tickers) : ~isKrTicker(normalizeTicker(tickers[i]))
     /\ Tick(QUOTE_TTL_MS)

SpecCap == InitCap /\ [][NextCap]_vars

\* --------------------------------------------------- the daily bars alone
\* fetchDomesticDailyBars from the payload's output2 to the bars it returns.
\* A row carries stck_bsop_date (a string of digits, or nothing) and
\* stck_clpr; open, high, low and volume are mapped like the close and take no
\* part in the filter or the sort.

\* the longest output2
MaxRows == 3

\* a.localeCompare(b) on strings of digits: negative, 0 or positive
RECURSIVE localeCompare(_, _)
localeCompare(a, b) ==
  IF a = <<>> THEN (IF b = <<>> THEN 0 ELSE 0 - 1)
  ELSE IF b = <<>> THEN 1
  ELSE IF Head(a) = Head(b) THEN localeCompare(Tail(a), Tail(b))
  ELSE LET rank(c) == CHOOSE n \in 0..9 : <<"0", "1", "2", "3", "4", "5", "6", "7", "8", "9">>[n + 1] = c
       IN  IF rank(Head(a)) < rank(Head(b)) THEN 0 - 1 ELSE 1

\* Array.prototype.sort with the comparator of the dates: a stable sort
RECURSIVE sortByDate(_)
sortByDate(bars) ==
  IF bars = <<>> THEN <<>>
  ELSE LET rest == sortByDate(SubSeq(bars, 1, Len(bars) - 1))
           last == bars[Len(bars)]
           k == Cardinality({i \in 1..Len(rest) : localeCompare(rest[i].date, last.date) <= 0})
       IN  SubSeq(rest, 1, k) \o <<last>> \o SubSeq(rest, k + 1, Len(rest))

\* output2.map(...).filter(bar => bar.date && bar.close > 0).sort(...)
dailyBars(output2) ==
  LET toBar(row) ==
        [date |-> row.stck_bsop_date,
         close |-> IF IsSome(parseNumber(row.stck_clpr)) THEN parseNumber(row.stck_clpr)[1] ELSE 0]
      mapped == [i \in 1..Len(output2) |-> toBar(output2[i])]
      keep(bar) == bar.date # <<>> /\ bar.close > 0
  IN  sortByDate(SelectSeq(mapped, keep))

\* the rows of an output2: a day of December, two of January or no date, and
\* a close that is a positive number, zero, negative or not a number
Rows ==
  [stck_bsop_date : { <<>>,
                      <<"2", "0", "2", "3", "1", "2", "2", "8">>,
                      <<"2", "0", "2", "4", "0", "1", "0", "2">>,
                      <<"2", "0", "2", "4", "0", "1", "0", "3">> },
   stck_clpr : { Raw("num", 100), Raw("num", 200), Raw("num", 0), Raw("num", 0 - 100),
                 Raw("text", 0) }]

InitBars ==
  /\ InitKis /\ configured
  /\ limit = CONCURRENCY_LIMIT
  /\ oracle = Null
  /\ pool = IdlePool
  /\ \E n \in 0..MaxRows : \E rows \in [1..n -> Rows] :
       calc = [rows |-> rows, fn |-> "none", out |-> Null]

\* the payload of the daily-bars endpoint is turned into bars
MapRows ==
  /\ calc.fn = "none"
  /\ calc' = [calc EXCEPT !.fn = "fetchDomesticDailyBars", !.out = dailyBars(calc.rows)]
  /\ UNCHANGED <<kisVars, limit, oracle, pool>>

NextBars == MapRows

SpecBars == InitBars /\ [][NextBars]_vars

\* ================================================================== claims

\* a coroutine issues a data call in this step
IssuesCall(f) ==
  /\ f \in DOMAIN fibers'
  /\ fibers'[f].pc = "call"
  /\ \/ f \notin DOMAIN fibers
     \/ fibers'[f].calls > fibers[f].calls

\* a coroutine calls getAccessToken from its pacing sleep in this step
LeavesSleep(f) ==
  /\ f \in DOMAIN fibers /\ fibers[f].pc = "sleep"
  /\ f \in DOMAIN fibers' /\ fibers'[f].pc # "sleep"

\* refresh r ends in this step, with a token or with an error
RefreshEndsOk(r) ==
  r \in DOMAIN refreshes /\ r \notin DOMAIN refreshes' /\ tokensIssued' = tokensIssued + 1
RefreshEndsKo(r) ==
  r \in DOMAIN refreshes /\ r \notin DOMAIN refreshes' /\ tokensIssued' = tokensIssued

NoteOnly(q, ticker) ==
  /\ q = [BlankQuote(ticker) EXCEPT !.note = q.note]
  /\ IsSome(q.note)
  /\ q.note[1] # ""

\* C1: once fetchQuotes has returned, the returned list has exactly
\* tickers.length slots, none of them empty, and the Quote at index i carries
\* the original input string tickers[i], whatever the upstream answered.
C1_OneQuotePerTicker ==
  IsSome(retval) =>
    /\ Len(retval[1]) = Len(tickers)
    /\ \A i \in 1..Len(retval[1]) :
         IsSome(retval[1][i]) /\ retval[1][i][1].ticker = tickers[i]

\* fetchQuotes has returned three Quotes, one for an un-normalized input, one
\* that failed and one with a price
C1_Witness ==
  /\ IsSome(retval)
  /\ Len(tasks) = 3
  /\ \E i, j \in 1..3 :
       /\ tasks[i].caught
       /\ IsSome(retval[1][j][1].price)
       /\ normalizeTicker(tickers[j]) # tickers[j]

\* C2: a failure inside one ticker's fetch sequence (token failure, network
\* error, timeout, unparsable payload) never leaves the task: the task's slot
\* holds {ticker: original, note: non-empty} and nothing else, at once and in
\* the returned list, and the returned list has a Quote for every other ticker;
\* when a refresh fails, the task of every coroutine that asked for the token
\* ends with such a Quote.
C2_State ==
  /\ \A i \in 1..Len(tasks) :
       tasks[i].caught =>
         /\ i <= Len(results)
         /\ IsSome(results[i])
         /\ NoteOnly(results[i][1], tickers[i])
  /\ IsSome(retval) /\ configured =>
       /\ retval[1] = results
       /\ \A i \in 1..Len(tickers) : i <= Len(results) /\ IsSome(results[i])

C2_Step ==
  \A r \in DOMAIN refreshes :
    RefreshEndsKo(r) =>
      \A f \in Waiting(r) :
        /\ tasks'[f[2]].caught
        /\ IsSome(results'[f[2]])
        /\ NoteOnly(results'[f[2]][1], tickers[f[2]])

C2_FailureBecomesNote == []C2_State /\ [][C2_Step]_vars

\* fetchQuotes has returned, one ticker failed with the token error and
\* another ticker of the batch has its price
C2_Witness ==
  /\ IsSome(retval)
  /\ \E i, j \in 1..Len(tasks) :
       /\ tasks[i].caught
       /\ retval[1][i][1].note = Some("KIS token request failed")
       /\ IsSome(retval[1][j][1].price)

\* C3: at most one refresh runs, so at most one token request is outstanding;
\* every caller waiting for a token waits for the refresh in flight; a caller
\* that arrives while a refresh is in flight starts no refresh; and when the
\* refresh ends, all its callers issue their calls with its token, or all get
\* its error.
C3_State ==
  /\ Cardinality(DOMAIN refreshes) <= 1
  /\ IsSome(tokenInFlight) <=> refreshes # <<>>
  /\ \A f \in DOMAIN fibers :
       fibers[f].pc = "token" =>
         tokenInFlight = Some(fibers[f].await) /\ fibers[f].await \in DOMAIN refreshes

C3_Step ==
  /\ refreshes # <<>> => DOMAIN refreshes' \subseteq DOMAIN refreshes
  /\ \A r \in DOMAIN refreshes :
       /\ RefreshEndsOk(r) =>
            \A f \in Waiting(r) :
              /\ f \in DOMAIN fibers'
              /\ fibers'[f].pc = "call"
              /\ fibers'[f].tok = Some(cachedToken'[1].token)
              /\ cachedToken'[1].token.id = tokensIssued'
       /\ RefreshEndsKo(r) =>
            \A f \in Waiting(r) : f \notin DOMAIN fibers'

C3_SingleFlight == []C3_State /\ [][C3_Step]_vars

\* three callers wait for one refresh
C3_Witness == \E r \in DOMAIN refreshes : Cardinality(Waiting(r)) = 3

\* C4 as stated: whenever a call is issued with a token whose TTL the upstream
\* provided, at least 60 s remain to the token's true expiry.
C4_Original ==
  [][\A f \in DOMAIN fibers' :
       IssuesCall(f) /\ fibers'[f].tok[1].trueExp # 0 =>
         fibers'[f].tok[1].trueExp - clock' >= SAFETY_MARGIN_MS]_vars

\* What the code keeps of C4: a token read from the cache is attached only
\* while more than 60 s remain to its expiry (receipt + TTL); a token handed
\* over by the refresh that ends in this step is attached at once, with its
\* whole TTL left, however short.
C4_CachedTokenMargin ==
  [][\A f \in DOMAIN fibers' :
       IssuesCall(f) /\ fibers'[f].tok[1].trueExp # 0 =>
         \/ /\ fibers'[f].via = "cache"
            /\ fibers'[f].tok[1].trueExp - clock' > SAFETY_MARGIN_MS
         \/ /\ fibers'[f].via = "refresh"
            /\ tokensIssued' = tokensIssued + 1
            /\ fibers'[f].tok[1].id = tokensIssued'
            /\ cachedToken'[1].expiresAt = fibers'[f].tok[1].trueExp - SAFETY_MARGIN_MS]_vars

\* a call carries a cached token with a known TTL while another call carries
\* a token that had less than 60 s to live when it was received
C4_Witness ==
  \E f, g \in DOMAIN fibers :
    /\ fibers[f].pc = "call" /\ fibers[f].via = "cache" /\ fibers[f].tok[1].trueExp # 0
    /\ fibers[g].pc = "call" /\ fibers[g].via = "refresh"
    /\ fibers[g].tok[1].trueExp # 0
    /\ fibers[g].tok[1].trueExp - clock < SAFETY_MARGIN_MS
    /\ ticks = 0

\* C5: while the cached token's expiry is in the future no refresh runs and a
\* getAccessToken call returns the cached token without a token request; the
\* first call at or after the cached expiry starts exactly one refresh (attempt
\* 0, request outstanding); the token a refresh obtains replaces the cached one.
C5_State ==
  IsSome(cachedToken) /\ cachedToken[1].expiresAt > clock => refreshes = <<>>

C5_Step ==
  /\ \A f \in DOMAIN fibers :
       LeavesSleep(f) =>
         /\ IsSome(cachedToken) /\ cachedToken[1].expiresAt > clock =>
              /\ fibers'[f].pc = "call"
              /\ fibers'[f].tok = Some(cachedToken[1].token)
              /\ refreshes' = refreshes
              /\ tokensIssued' = tokensIssued
              /\ cachedToken' = cachedToken
         /\ IsSome(cachedToken) /\ cachedToken[1].expiresAt <= clock /\ refreshes = <<>> =>
              /\ Cardinality(DOMAIN refreshes') = 1
              /\ \A r \in DOMAIN refreshes' :
                   /\ refreshes'[r].attempt = 0 /\ refreshes'[r].phase = "fetch"
                   /\ fibers'[f].pc = "token" /\ fibers'[f].await = r
  /\ tokensIssued' > tokensIssued =>
       /\ IsSome(cachedToken')
       /\ cachedToken'[1].token.id = tokensIssued'
       /\ cachedToken' # cachedToken

C5_TokenReuse == []C5_State /\ [][C5_Step]_vars

\* a call was issued with the cached token, that token has since expired in
\* the cache and a later caller's refresh has replaced it
C5_Witness ==
  /\ tokensIssued = 2
  /\ IsSome(cachedToken) /\ cachedToken[1].token.id = 2
  /\ ticks > 0
  /\ \E f \in DOMAIN fibers :
       fibers[f].pc = "call" /\ fibers[f].via = "cache" /\ fibers[f].tok[1].id = 1

\* C6: a refresh makes at most 2 token requests, the second only after the
\* first was answered with a non-success status or without a token; when a
\* refresh fails, nothing is cached and no usable token is in the cache,
\* tokenInFlight is cleared, every caller of the refresh gets the error, and
\* the next getAccessToken call starts a new refresh at attempt 0.
C6_State == \A r \in DOMAIN refreshes : refreshes[r].attempt \in {0, 1}

C6_Step ==
  /\ \A r \in DOMAIN refreshes :
       /\ r \in DOMAIN refreshes' /\ refreshes'[r].attempt # refreshes[r].attempt =>
            /\ refreshes[r].attempt = 0 /\ refreshes'[r].attempt = 1
            /\ refreshes[r].phase = "backoff" /\ refreshes'[r].phase = "fetch"
            /\ refreshes[r].lastError \in
                 {"KIS token request failed", "KIS token response missing access_token"}
       /\ RefreshEndsKo(r) =>
            /\ cachedToken' = cachedToken
            /\ ~(IsSome(cachedToken') /\ cachedToken'[1].expiresAt > clock')
            /\ tokenInFlight' = Null
            /\ \A f \in Waiting(r) : f \notin DOMAIN fibers'
  /\ \A f \in DOMAIN fibers :
       /\ LeavesSleep(f)
       /\ ~(IsSome(cachedToken) /\ cachedToken[1].expiresAt > clock)
       /\ refreshes = <<>>
       => \E r \in DOMAIN refreshes' :
            /\ refreshes'[r].attempt = 0 /\ refreshes'[r].phase = "fetch"
            /\ tokenInFlight' = Some(r)
            /\ fibers'[f].pc = "token" /\ fibers'[f].await = r

C6_RefreshRetry == []C6_State /\ [][C6_Step]_vars

\* a refresh has failed after two non-success answers (its error is the note
\* of a task) and a later caller's new refresh is at its first attempt
C6_Witness ==
  /\ \E i \in 1..Len(results) :
       IsSome(results[i]) /\ results[i][1].note = Some("KIS token request failed")
  /\ \E r \in DOMAIN refreshes : refreshes[r].attempt = 0 /\ refreshes[r].phase = "fetch"
  /\ cachedToken = Null

\* C7: one authorizedFetch invocation issues at most 2 data calls; the second
\* is issued only after a 401 cleared the cached token, and with a token handed
\* out after that; the answer to the second call, a 401 included, is surfaced:
\* the cached token stays as it is and no further call follows.
C7_State ==
  \A f \in DOMAIN fibers :
    /\ fibers[f].calls <= 2
    /\ fibers[f].calls = 2 => ~fibers[f].retry
    /\ fibers[f].pc = "call" /\ fibers[f].retry => fibers[f].calls = 1
    /\ fibers[f].pc = "call" /\ fibers[f].calls = 2 => fibers[f].tok[1].id > fibers[f].invalAt

C7_Step ==
  \A f \in DOMAIN fibers :
    fibers[f].pc = "call" =>
      /\ f \in DOMAIN fibers' /\ fibers[f].retry /\ ~fibers'[f].retry =>
           /\ cachedToken' = Null
           /\ fibers'[f].pc = "token"
           /\ fibers'[f].invalAt = tokensIssued
           /\ fibers'[f].calls = 1
      /\ ~fibers[f].retry /\ (f \notin DOMAIN fibers' \/ fibers'[f] # fibers[f]) =>
           /\ cachedToken' = cachedToken
           /\ refreshes' = refreshes
           /\ f \in DOMAIN fibers' => fibers'[f].pc = "sleep" /\ fibers'[f].calls = 0

C7_RetryOnce == []C7_State /\ [][C7_Step]_vars

\* the spot-quote call got a 401 twice: the body of the second 401 is the
\* task's quote, and the token handed out for the retry is still cached
C7_Witness ==
  /\ tokensIssued = 2
  /\ IsSome(cachedToken) /\ cachedToken[1].token.id = 2
  /\ \E i \in 1..Len(tasks) :
       IsSome(tasks[i].quote) /\ tasks[i].quote[1].note = Some("EGW00123")

\* C8: when the API key or secret is missing, no coroutine ever runs, no token
\* request and no data call is made, the token cache and both data caches stay
\* as they were, and fetchQuotes returns one Quote per input ticker that holds
\* the ticker and the fixed note only.
C8_NotConfigured ==
  ~configured =>
    /\ fibers = <<>> /\ refreshes = <<>> /\ tokenInFlight = Null
    /\ cachedToken = Null /\ tokensIssued = 0
    /\ \A t \in NormTickers : quoteCache[t] = Null /\ finCache[t] = Null
    /\ batch > 0 =>
         /\ IsSome(retval)
         /\ Len(retval[1]) = Len(tickers)
         /\ \A i \in 1..Len(tickers) :
              /\ IsSome(retval[1][i])
              /\ retval[1][i][1] =
                   [BlankQuote(tickers[i]) EXCEPT !.note = Some("KIS API keys not configured")]

\* fetchQuotes has returned three Quotes without keys
C8_Witness == ~configured /\ IsSome(retval) /\ Len(retval[1]) = 3

CallsAgainAfterFailure(f) ==
  LET ticker == fibers[f].ticker
  IN  /\ f[3] = "quote"
      /\ fibers[f].pc = "call"
      /\ IsSome(spotFailAt[ticker])
      /\ f[1] > spotFailAt[ticker][1].batch
      /\ clock < spotFailAt[ticker][1].at + QUOTE_TTL_MS

\* C10 as stated: the failed result is in the quote cache, so no fetch that
\* starts within 20 s of the failure calls the spot-quote endpoint.
C10_Original ==
  /\ \A f \in DOMAIN fibers : ~CallsAgainAfterFailure(f)
  /\ \A t \in NormTickers :
       IsSome(spotFailAt[t]) =>
         /\ IsSome(quoteCache[t])
         /\ quoteCache[t][1].expiresAt >= spotFailAt[t][1].at + QUOTE_TTL_MS

\* C10 amended: a failed spot-quote result is returned without being stored:
\* the answer leaves the quote cache as it was, and no entry of the quote cache
\* of a domestic ticker carries a note.
C10_State ==
  \A t \in NormTickers :
    isKrTicker(t) /\ IsSome(quoteCache[t]) => quoteCache[t][1].data.note = Null

C10_Step ==
  \A t \in NormTickers : spotFailAt'[t] # spotFailAt[t] => quoteCache' = quoteCache

C10_Amended == []C10_State /\ [][C10_Step]_vars

\* the second fetch of the ticker calls the spot-quote endpoint within 20 s of
\* the failure
C10_Witness == \E f \in DOMAIN fibers : CallsAgainAfterFailure(f)

\* the task of index i of the current invocation starts in this step
TaskStarts(i) ==
  /\ i \in 1..Len(tasks')
  /\ tasks'[i].status # "unclaimed"
  /\ batch' # batch \/ tasks[i].status = "unclaimed"

\* C11: an entry written to the quote cache at time t expires at t + 20 s, an
\* entry written to the fundamentals cache at t + 24 h; a task that starts
\* takes its quote (its fundamentals) from the cache exactly when the entry's
\* expiry is later than the time of the read, otherwise the fetch goes on to
\* the upstream call; the two reads are decided separately.
C11_Step ==
  /\ \A t \in NormTickers :
       /\ quoteCache'[t] # quoteCache[t] =>
            IsSome(quoteCache'[t]) /\ quoteCache'[t][1].expiresAt = clock' + QUOTE_TTL_MS
       /\ finCache'[t] # finCache[t] =>
            IsSome(finCache'[t]) /\ finCache'[t][1].expiresAt = clock' + FIN_TTL_MS
  /\ \A i \in 1..Len(tickers') :
       TaskStarts(i) =>
         LET n == normalizeTicker(tickers'[i])
             qLive == IsSome(quoteCache'[n]) /\ clock' < quoteCache'[n][1].expiresAt
             fLive == IsSome(finCache'[n]) /\ clock' < finCache'[n][1].expiresAt
         IN  IF isKrTicker(n)
               THEN /\ IF qLive
                         THEN /\ <<batch', i, "quote">> \notin DOMAIN fibers'
                              /\ tasks'[i].quote = Some(quoteCache'[n][1].data)
                         ELSE /\ <<batch', i, "quote">> \in DOMAIN fibers'
                              /\ fibers'[<<batch', i, "quote">>].pc = "sleep"
                    /\ IF fLive
                         THEN /\ <<batch', i, "fin">> \notin DOMAIN fibers'
                              /\ tasks'[i].fin = Some(Some(finCache'[n][1].data))
                         ELSE /\ <<batch', i, "fin">> \in DOMAIN fibers'
                              /\ fibers'[<<batch', i, "fin">>].pc = "sleep"
               ELSE IF qLive
                 THEN /\ <<batch', i, "ovs">> \notin DOMAIN fibers'
                      /\ results'[i] =
                           Some([quoteCache'[n][1].data EXCEPT !.ticker = tickers'[i]])
                 ELSE /\ <<batch', i, "ovs">> \in DOMAIN fibers'
                      /\ fibers'[<<batch', i, "ovs">>].pc = "sleep"

C11_CacheExpiry == [][C11_Step]_vars

\* 20 s after both entries were written, the second fetch of the symbol calls
\* the spot-quote endpoint again and takes the fundamentals from the cache
C11_Witness ==
  /\ batch = 2 /\ clock = QUOTE_TTL_MS
  /\ IsSome(quoteCache[T_KR]) /\ quoteCache[T_KR][1].expiresAt = QUOTE_TTL_MS
  /\ IsSome(finCache[T_KR]) /\ finCache[T_KR][1].expiresAt = FIN_TTL_MS
  /\ <<2, 1, "quote">> \in DOMAIN fibers /\ fibers[<<2, 1, "quote">>].pc = "call"
  /\ <<2, 1, "fin">> \notin DOMAIN fibers
  /\ tasks[1].status = "running" /\ IsSome(tasks[1].fin)

\* C12: once runWithConcurrency has returned, every task was called and the
\* returned list has a filled slot for every index, also when a task threw.
C12_Original ==
  pool.phase = "returned" =>
    /\ pool.ran = 1..Len(pool.tasks)
    /\ Len(pool.results) = Len(pool.tasks)
    /\ \A i \in 1..Len(pool.tasks) : IsSome(pool.results[i])

\* What the code keeps of C12: the slots of the tasks that fulfilled are
\* filled, the slot of a task that threw is never written, its worker ends
\* there, and the tasks no surviving worker claims are never called.
C12_Survivors ==
  pool.phase = "returned" =>
    /\ \A i \in 1..Len(pool.tasks) :
         /\ i \in pool.ran /\ pool.tasks[i] = "ok" =>
              i <= Len(pool.results) /\ pool.results[i] = Some(i)
         /\ i \notin pool.ran \/ pool.tasks[i] = "throw" =>
              i > Len(pool.results) \/ pool.results[i] = Null
    /\ pool.ran # 1..Len(pool.tasks) =>
         \A w \in 1..Len(pool.workers) : pool.workers[w].status = "rejected"

\* computeMarketScore was applied to at least 60 bars
Scored == calc # Null /\ calc.fn = "computeMarketScore" /\ calc.bars.n >= 60

\* C13: for every sequence of at least 60 bars the marketScore that
\* computeMarketScore returns is an integer from 0 to 100.
C13_MarketScoreRange == Scored => calc.out.marketScore \in 0..100

\* the raw sum of the sub-scores is below -30 and the marketScore is 0
C13_Witness ==
  /\ Scored
  /\ Gt(Q(-30, 1), rawScore(BarsOf(calc.bars)))
  /\ calc.out.marketScore = 0

\* the raw sum of the sub-scores is above 30 and the marketScore is 100
C13_WitnessAbove ==
  /\ Scored
  /\ Gt(rawScore(BarsOf(calc.bars)), Q(30, 1))
  /\ calc.out.marketScore = 100

\* none of the last 14 day-over-day changes of the closes is negative
NoLossIn14(closes) ==
  \A i \in (Len(closes) - 13)..Len(closes) : closes[i] >= closes[i - 1]

\* C14: for at least 15 positive closes computeRsi14 returns a value from 0 to
\* 100, and the value is 100 exactly when none of the last 14 changes is
\* negative.
C14_RsiRange ==
  calc # Null /\ calc.fn = "computeRsi14" /\ calc.bars.n >= 15 =>
    /\ IsSome(calc.out)
    /\ calc.out[1].d > 0
    /\ 0 <= calc.out[1].n /\ calc.out[1].n <= 100 * calc.out[1].d
    /\ calc.out[1].n = 100 * calc.out[1].d <=> NoLossIn14(ClosesOf(BarsOf(calc.bars)))

\* closes that went up and down: the value lies strictly between 0 and 100
C14_Witness ==
  /\ calc # Null /\ calc.fn = "computeRsi14" /\ calc.bars.n = 15
  /\ calc.bars.closes = "rally"
  /\ 0 < calc.out[1].n /\ calc.out[1].n < 100 * calc.out[1].d

\* closes that never moved: no change is negative and the value is 100
C14_WitnessFlat ==
  /\ calc # Null /\ calc.fn = "computeRsi14" /\ calc.bars.closes = "flat"
  /\ calc.bars.n >= 15 /\ calc.out = Some(Q(100, 1))

\* computeMarketScore was applied to exactly 60 bars with strictly increasing closes
Increasing60 ==
  /\ calc # Null /\ calc.fn = "computeMarketScore" /\ calc.bars.n = 60
  /\ \A i \in 2..60 : BarsOf(calc.bars)[i].close > BarsOf(calc.bars)[i - 1].close

\* C15 as stated: 60 bars with strictly increasing closes score trend +10 and a
\* marketScore above 50, whatever their highs, lows and volumes.
C15_Original ==
  Increasing60 =>
    /\ scoreTrend(ClosesOf(BarsOf(calc.bars))) = 10
    /\ calc.out.marketScore > 50

\* C15 amended: 60 bars with strictly increasing closes score trend +10 and
\* the RSI penalty -7; the marketScore is above 50 when the volumes bring no
\* penalty and the daily ranges no volatility penalty.
C15_Amended ==
  Increasing60 =>
    LET bars == BarsOf(calc.bars)
    IN  /\ scoreTrend(ClosesOf(bars)) = 10
        /\ scoreRsi(computeRsi14(ClosesOf(bars))) = -7
        /\ scoreVolume(volRatioOf(VolumesOf(bars))) >= 0
             /\ scoreVolatility(computeAtrPct(bars)) = 0
           => calc.out.marketScore > 50

\* slowly rising closes with narrow ranges and steady volumes: marketScore 56
C15_Witness ==
  /\ Increasing60
  /\ calc.bars.range = "tight" /\ calc.bars.volumes = "steady"
  /\ calc.out.marketScore > 50

\* the technical snapshot of a Quote was derived from the bars
Attached == calc # Null /\ calc.fn = "technical"

\* C16 as stated: the snapshot depends on the number n of bars only: from 60
\* bars on it has marketScore, rsi, ma20, ma60, volRatio and atrPct, from 20 to
\* 59 bars it is {marketScore: 50}, below 20 bars there is none.
C16_Original ==
  Attached =>
    /\ calc.bars.n >= 60 =>
         /\ IsSome(calc.out)
         /\ IsSome(calc.out[1].rsi) /\ IsSome(calc.out[1].ma20) /\ IsSome(calc.out[1].ma60)
         /\ IsSome(calc.out[1].volRatio) /\ IsSome(calc.out[1].atrPct)
    /\ calc.bars.n >= 20 /\ calc.bars.n <= 59 => calc.out = Some(DegradedSnapshot)
    /\ calc.bars.n < 20 => calc.out = Null

\* C16 amended: from 60 bars on the snapshot has marketScore, rsi, ma20, ma60
\* and atrPct, and it has volRatio unless the volumes of the last 3 or of the
\* last 20 bars sum to zero; from 20 to 59 bars it is {marketScore: 50}, below
\* 20 bars there is none.
C16_Amended ==
  Attached =>
    /\ calc.bars.n >= 60 =>
         /\ IsSome(calc.out)
         /\ calc.out[1].marketScore \in 0..100
         /\ IsSome(calc.out[1].rsi) /\ IsSome(calc.out[1].ma20) /\ IsSome(calc.out[1].ma60)
         /\ IsSome(calc.out[1].atrPct)
         /\ IsSome(calc.out[1].volRatio) <=>
              /\ SumSeq(LastOf(VolumesOf(BarsOf(calc.bars)), 3)) # 0
              /\ SumSeq(LastOf(VolumesOf(BarsOf(calc.bars)), 20)) # 0
    /\ calc.bars.n >= 20 /\ calc.bars.n <= 59 => calc.out = Some(DegradedSnapshot)
    /\ calc.bars.n < 20 => calc.out = Null

\* 60 bars without any volume in the last 3 days: a snapshot without volRatio
C16_Witness ==
  /\ Attached /\ calc.bars.n = 60 /\ calc.bars.volumes = "haltedNow"
  /\ IsSome(calc.out) /\ calc.out[1].volRatio = Null /\ IsSome(calc.out[1].atrPct)

\* a candidate verification handles by name: market KR, ticker not listed
KrMiss(candidate) ==
  candidate.market = "KR" /\ toUpperCase(candidate.ticker) \notin krSet

\* C17: a KR candidate whose upper-cased ticker is not in the domestic set
\* leaves verification with the ticker its normalised name maps to, market
\* KR and verified = true when that name is a key of the name map, and with
\* its own ticker and verified = false when it is not a key (or is empty).
C17_NameCorrection ==
  calc.stage = "verified" =>
    \A i \in 1..Len(calc.parsed) :
      LET c == calc.parsed[i]
          o == calc.verified[i]
          key == normalizeName(c.name)
      IN  KrMiss(c) =>
            IF key \in DOMAIN krNameMapRecord
              THEN o.ticker = krNameMapRecord[key] /\ o.market = "KR"
                   /\ o.verified = TRUE
              ELSE o.ticker = c.ticker /\ o.verified = FALSE

\* an unlisted KR ticker was replaced through a name written with noise
C17_Witness ==
  /\ calc.stage = "verified"
  /\ \E i \in 1..Len(calc.parsed) :
       /\ KrMiss(calc.parsed[i])
       /\ calc.parsed[i].name # normalizeName(calc.parsed[i].name)
       /\ normalizeName(calc.parsed[i].name) = KEY_LAPAZ
       /\ calc.verified[i].ticker = T_KR
       /\ calc.verified[i].ticker # calc.parsed[i].ticker
       /\ calc.verified[i].verified

\* an unlisted KR ticker was kept: no listing has the name
C17_WitnessMiss ==
  /\ calc.stage = "verified"
  /\ \E i \in 1..Len(calc.parsed) :
       /\ KrMiss(calc.parsed[i])
       /\ normalizeName(calc.parsed[i].name) \notin DOMAIN krNameMapRecord \cup {<<>>}
       /\ calc.verified[i].ticker = calc.parsed[i].ticker
       /\ ~calc.verified[i].verified

\* an unlisted KR ticker was kept: the normalised name is empty
C17_WitnessEmpty ==
  /\ calc.stage = "verified"
  /\ \E i \in 1..Len(calc.parsed) :
       /\ KrMiss(calc.parsed[i])
       /\ normalizeName(calc.parsed[i].name) = <<>>
       /\ calc.verified[i].ticker = calc.parsed[i].ticker
       /\ ~calc.verified[i].verified

\* C18: verification followed by truncation returns min(n, 12) of n
\* candidates; output position i comes from input position i, verification
\* sees all n candidates, and the ones dropped are those from position 13 on.
C18_VerifyThenClamp ==
  /\ calc.stage \in {"verified", "clamped"} =>
       /\ Len(calc.verified) = Len(calc.raw)
       /\ \A i \in 1..Len(calc.verified) :
            /\ calc.verified[i].score = i
            /\ calc.verified[i].name = calc.parsed[i].name
            /\ calc.verified[i].rationale = calc.parsed[i].rationale
  /\ calc.stage = "clamped" =>
       /\ Len(calc.out) = Min(Len(calc.raw), 12)
       /\ \A i \in 1..Len(calc.out) : calc.out[i] = calc.verified[i]

\* 14 candidates were verified and cut to 12; the twelfth was corrected by
\* name and the thirteenth, also corrected, was dropped
C18_Witness ==
  /\ calc.stage = "clamped"
  /\ Len(calc.raw) = 14 /\ Len(calc.out) = 12
  /\ calc.out[12].ticker # calc.parsed[12].ticker
  /\ calc.verified[13].verified

\* a list shorter than the maximum is returned whole
C18_WitnessShort ==
  /\ calc.stage = "clamped"
  /\ Len(calc.raw) = 3 /\ Len(calc.out) = 3

\* C19: for a candidate of market US or UNKNOWN verification changes the
\* verified flag only: membership of the upper-cased ticker in the foreign
\* set for US, false for UNKNOWN; every other field is as it was.
C19_ForeignFrame ==
  calc.stage = "verified" =>
    \A i \in 1..Len(calc.parsed) :
      LET c == calc.parsed[i]
          o == calc.verified[i]
      IN  c.market \in {"US", "UNKNOWN"} =>
            o = [c EXCEPT !.verified =
                   (c.market = "US" /\ toUpperCase(c.ticker) \in usSet)]

\* a US candidate with a lower-case listed symbol and a name the domestic
\* name map has is verified as it stands; an UNKNOWN candidate is not
C19_Witness ==
  /\ calc.stage = "verified"
  /\ \E i, j \in 1..Len(calc.parsed) :
       /\ calc.parsed[i].market = "US"
       /\ calc.parsed[i].ticker = T_US_LOWER
       /\ normalizeName(calc.parsed[i].name) \in DOMAIN krNameMapRecord
       /\ calc.verified[i].verified
       /\ calc.verified[i].ticker = T_US_LOWER
       /\ calc.parsed[j].market = "UNKNOWN"
       /\ ~calc.verified[j].verified

\* a US candidate whose symbol is not listed stays unverified
C19_WitnessUnlisted ==
  /\ calc.stage = "verified"
  /\ \E i \in 1..Len(calc.parsed) :
       /\ calc.parsed[i].market = "US"
       /\ toUpperCase(calc.parsed[i].ticker) \notin usSet
       /\ normalizeName(calc.parsed[i].name) \in DOMAIN krNameMapRecord
       /\ calc.verified[i] = calc.parsed[i]

\* the error every caller of getAccessToken gets from the upstream of
\* profile p, Null if that upstream hands out tokens
TokenErrorOf(p) ==
  IF p.token.throws THEN Some(p.token.message)
  ELSE IF p.token.ok /\ p.token.access_token THEN Null
  ELSE IF p.token.ok THEN Some("KIS token response missing access_token")
  ELSE Some("KIS token request failed")

\* the Quotes the code specifies for the ticker original, read off the
\* answers of profile p endpoint by endpoint, with no reference to the pool:
\* the catch's Quote when the token or a call fails with an error, else the
\* fetchers' values under the caller's ticker
QuotesFor(original, p) ==
  LET normalized == normalizeTicker(original)
      caught(m) == [BlankQuote(original) EXCEPT !.note = Some(OrElse(m, "KIS request error"))]
  IN  IF IsSome(TokenErrorOf(p)) THEN {caught(TokenErrorOf(p)[1])}
      ELSE IF isKrTicker(normalized)
        THEN LET thrown == {a \in {p.quote, p.fin, p.bars} : a.throws}
             IN  IF thrown # {} THEN {caught(a.message) : a \in thrown}
                 ELSE {[ ticker |-> original,
                         price |-> IF p.quote.rt_cd = "0"
                                     THEN parseNumber(p.quote.stck_prpr) ELSE Null,
                         changePercent |-> IF p.quote.rt_cd = "0" THEN Some(1) ELSE Null,
                         volume |-> IF p.quote.rt_cd = "0" THEN Some(1000) ELSE Null,
                         note |-> IF p.quote.rt_cd = "0" THEN Null
                                  ELSE Some(OrElse(p.quote.msg1, "Domestic quote failed")),
                         fundamentals |-> IF p.fin.rt_cd = "0" /\ p.fin.rows > 0
                                            THEN Some([roe |-> Some(9), eps |-> Some(5000),
                                                       bps |-> Null])
                                            ELSE Null,
                         technical |-> IF p.bars.rt_cd = "0" /\ p.bars.rows >= 20
                                         THEN Some(DegradedSnapshot) ELSE Null ]}
      ELSE LET a == p.ovs[normalized]
               price == parseNumber(a.last)
           IN  IF a.throws THEN {caught(a.message)}
               ELSE IF a.rt_cd # "0" \/ ~IsSome(price) \/ price[1] = 0
                 THEN {[BlankQuote(original) EXCEPT
                          !.note = Some("Overseas quote failed or unavailable")]}
               ELSE {[BlankQuote(original) EXCEPT
                        !.price = price, !.changePercent = Some(2), !.volume = Some(0),
                        !.note = Some(Exchanges(normalized)[1])]}

\* an invocation that has not returned has a coroutine that can go on: one
\* at its sleep or with a call outstanding, or one awaiting a refresh that is
\* running and that the token budget lets end
C20_Returns ==
  (batch = 1 /\ retval = Null) =>
    /\ \E f \in DOMAIN fibers : Live(Cur, f)
    /\ \A f \in DOMAIN fibers :
         fibers[f].pc = "token" => fibers[f].await \in DOMAIN refreshes
    /\ \A r \in DOMAIN refreshes :
         (refreshes[r].phase = "fetch" /\ TokenErrorOf(oracle[1]) = Null)
           => tokensIssued < TokenBudget

\* the list returned is the one the answers determine ticker by ticker:
\* every slot is filled, in the order of the batch
C20_SameList ==
  (batch = 1 /\ IsSome(retval)) =>
    /\ Len(retval[1]) = Len(tickers)
    /\ \A i \in 1..Len(tickers) :
         /\ IsSome(retval[1][i])
         /\ retval[1][i][1] \in QuotesFor(tickers[i], oracle[1])

\* C20: against an upstream whose answers depend on the endpoint and the
\* ticker only, fetchQuotes returns for a batch, whether the pool runs with
\* cap 1, 2 or 3, and the list it returns is the same: the cap changes the
\* interleaving of the calls, not any Quote.
C20_CapIndependent == C20_Returns /\ C20_SameList


\* three foreign symbols were fetched with cap 3 and every Quote has a price
C20_Witness ==
  /\ limit = 3 /\ batch = 1 /\ IsSome(retval) /\ Len(tickers) = 3
  /\ \A i \in 1..3 : IsSome(retval[1][i]) /\ IsSome(retval[1][i][1].price)

\* the same batch with cap 1, the quote cache expiring between the duplicates
C20_WitnessSerial ==
  /\ limit = 1 /\ batch = 1 /\ IsSome(retval) /\ Len(tickers) = 3 /\ ticks = 1
  /\ \A i \in 1..3 : IsSome(retval[1][i]) /\ IsSome(retval[1][i][1].price)

\* the domestic symbol twice, with cap 1 and with cap 2, the spot-quote
\* endpoint refusing the token
C20_WitnessDomestic1 ==
  /\ limit = 1 /\ batch = 1 /\ IsSome(retval) /\ Len(tickers) = 2
  /\ oracle[1].quote.status = 401
  /\ \A i \in 1..2 : IsSome(retval[1][i]) /\ retval[1][i][1].note = Some("EGW00123")

C20_WitnessDomestic2 ==
  /\ limit = 2 /\ batch = 1 /\ IsSome(retval) /\ Len(tickers) = 2
  /\ oracle[1].quote.status = 401
  /\ \A i \in 1..2 : IsSome(retval[1][i]) /\ retval[1][i][1].note = Some("EGW00123")

\* C21 as stated: a fetch of a domestic ticker that found an unexpired entry
\* in the quote cache has no call outstanding at any upstream endpoint.
C21_Original ==
  \A f \in DOMAIN fibers :
    (f[1] = batch /\ f[3] # "ovs" /\ tasks[f[2]].quoteHit) => fibers[f].pc # "call"

\* the coroutines of the task of index i of the current invocation
FibersOf(fs, b, i) == {f \in DOMAIN fs : f[1] = b /\ f[2] = i}

\* C22 as stated: the calls of a domestic task start together, and the task
\* has its Quote (its worker going on to the next ticker) only when none of
\* its calls is outstanding any more, also after one of them failed.
C22_Step ==
  \A i \in 1..Len(tickers') :
    (TaskStarts(i) /\ tasks'[i].status = "running") =>
      \A f \in FibersOf(fibers', batch', i) : fibers'[f].pc = "sleep"

C22_State ==
  \A i \in 1..Len(tasks) :
    tasks[i].status = "done" => FibersOf(fibers, batch, i) = {}

C22_Original == []C22_State /\ [][C22_Step]_vars

\* the workers of the pool that are awaiting a task
PoolBusy == {w \in 1..Len(pool.workers) : pool.workers[w].status = "awaiting"}

\* every step claims the indices right after the last claimed one, each for
\* the first time
C23_Step ==
  /\ pool'.index >= pool.index
  /\ pool'.ran = pool.ran \cup (pool.index + 1)..pool'.index

\* at most `limit` tasks are in progress, no two workers hold the same index,
\* and when runWithConcurrency returns every index was claimed
C23_State ==
  /\ Cardinality(PoolBusy) <= pool.limit
  /\ \A v, w \in PoolBusy : pool.workers[v].current = pool.workers[w].current => v = w
  /\ pool.phase = "returned" => pool.ran = 1..Len(pool.tasks)

StartsRefresh(r) == r \in DOMAIN refreshes' /\ r \notin DOMAIN refreshes

\* C24 as stated: every upstream call, the token-endpoint call and the call
\* re-issued after a 401 included, is immediately preceded by its own pacing
\* delay: a coroutine that issues a data call, or starts a token refresh, in a
\* step was at its pacing sleep right before, and it does not issue both out
\* of one sleep.
C24_Step ==
  /\ \A f \in DOMAIN fibers' :
       IssuesCall(f) => f \in DOMAIN fibers /\ fibers[f].pc = "sleep"
  /\ \A r \in DOMAIN refreshes' :
       StartsRefresh(r) =>
         \E f \in DOMAIN fibers :
           /\ fibers[f].pc = "sleep"
           /\ f \in DOMAIN fibers' /\ fibers'[f].pc = "token" /\ fibers'[f].await = r

C24_Original == [][C24_Step]_vars

\* C25 as stated: a token-endpoint attempt that times out or fails at the
\* network level counts as one failed attempt: a refresh fails only in or
\* after its second attempt.
C25_Step ==
  \A r \in DOMAIN refreshes :
    RefreshEndsKo(r) => refreshes[r].attempt + 1 = TOKEN_ATTEMPTS

C25_Original == [][C25_Step]_vars

\* the exchange list of fetchOverseasQuote as the claim states it
C26_List(ticker) ==
  IF IsSome(usExchangeMap(ticker)) THEN <<usExchangeMap(ticker)[1]>> ELSE <<"NAS", "NYS", "AMS">>

\* the coroutines of fetchOverseasQuote
Overseas(fs) == {f \in DOMAIN fs : f[3] = "ovs"}

\* an answer of the foreign spot-quote endpoint that carries a usable price
C26_Usable(a) == ~a.throws /\ a.rt_cd = "0" /\ a.last.t = "num" /\ a.last.v > 0

\* every attempt is at a position of the list
C26_InList ==
  \A f \in Overseas(fibers) : fibers[f].ex \in 1..Len(C26_List(fibers[f].ticker))

\* an answer with a usable price ends the attempts: the coroutine is gone and
\* the task has its Quote
C26_Yield ==
  \A f \in Overseas(fibers) : \A a \in OverseasAnswers :
    (fibers[f].pc = "call" /\ C26_Usable(a)) =>
      LET s == OverseasQuoteResult(Cur, f, a, clock)
      IN  /\ f \notin DOMAIN s.fibers
          /\ s.tasks[f[2]].status = "done"
          /\ s.results[f[2]][1].price = Some(a.last.v)

\* the attempts start at the first exchange on a cache miss and advance by one
\* exchange after an answered call; a Quote with a price is returned from an
\* outstanding call, is cached, and its note names the exchange of that call
C26_Step ==
  /\ \A f \in Overseas(fibers') \ Overseas(fibers) :
       /\ fibers'[f].ex = 1 /\ fibers'[f].pc = "sleep"
       /\ LET c == quoteCache[fibers'[f].ticker]
          IN  c = Null \/ ~(c[1].expiresAt > clock)
  /\ \A f \in Overseas(fibers') \cap Overseas(fibers) :
       \/ fibers'[f].ex = fibers[f].ex
       \/ /\ fibers'[f].ex = fibers[f].ex + 1
          /\ fibers[f].pc = "call" /\ fibers'[f].pc = "sleep"
          /\ quoteCache' = quoteCache
  /\ \A f \in Overseas(fibers) \ Overseas(fibers') :
       LET q == results'[f[2]][1]
           fb == fibers[f]
       IN  IsSome(q.price) =>
             /\ fb.pc = "call"
             /\ q.note = Some(C26_List(fb.ticker)[fb.ex])
             /\ quoteCache'[fb.ticker] =
                  Some([data |-> [q EXCEPT !.ticker = fb.ticker],
                        expiresAt |-> clock + QUOTE_TTL_MS])

\* C26 as stated: on a quote-cache miss for a foreign ticker the exchanges are
\* tried in the order of the list (the mapped exchange alone, else NAS, NYS,
\* AMS) with one call each, the attempts stop at the first usable price, and
\* the note of the returned Quote names the exchange that yielded it.
C26_Original ==
  /\ [](C26_InList /\ C26_Yield /\ \A f \in Overseas(fibers) : fibers[f].calls <= 1)
  /\ [][C26_Step]_vars

\* C26, amended: as above, but an attempt is one call, or two when the first
\* is answered with 401 and re-issued once.
C26_ExchangeOrder ==
  /\ [](/\ C26_InList
        /\ C26_Yield
        /\ \A f \in Overseas(fibers) :
             fibers[f].calls <= 2 /\ (fibers[f].calls = 2 => ~fibers[f].retry))
  /\ [][C26_Step]_vars

\* an unmapped ticker got its price from the second exchange of the list
C26_Witness ==
  \E i \in 1..Len(results) :
    /\ IsSome(results[i])
    /\ normalizeTicker(tickers[i]) = T_US_UNMAPPED
    /\ IsSome(results[i][1].price)
    /\ results[i][1].note = Some("NYS")

\* a mapped ticker got its price from its exchange
C26_WitnessMapped ==
  \E i \in 1..Len(results) :
    /\ IsSome(results[i])
    /\ normalizeTicker(tickers[i]) = T_US
    /\ IsSome(results[i][1].price)
    /\ results[i][1].note = Some("NAS")

\* the call of an attempt was re-issued after a 401
C26_WitnessReissue == \E f \in Overseas(fibers) : fibers[f].calls = 2 /\ fibers[f].ex = 3

\* C27 as stated: when the call of a foreign exchange attempt fails in any way,
\* the next exchange of the list is still tried: the fetch ends without a
\* price only after the call to the last exchange of the list.
C27_Step ==
  \A f \in Overseas(fibers) \ Overseas(fibers') :
    (fibers[f].pc = "call" /\ ~IsSome(results'[f[2]][1].price)) =>
      fibers[f].ex = Len(C26_List(fibers[f].ticker))

C27_Original == [][C27_Step]_vars

\* the Quotes of foreign tickers that fetchQuotes has produced or that are in
\* the quote cache
ForeignQuotes ==
  { results[i][1] : i \in {j \in 1..Len(results) :
                             IsSome(results[j]) /\ ~isKrTicker(normalizeTicker(tickers[j]))} }
  \cup { quoteCache[k][1].data : k \in {t \in DOMAIN quoteCache :
                                         IsSome(quoteCache[t]) /\ ~isKrTicker(t)} }

\* C28 as stated: every foreign Quote that carries a price, returned or
\* cached, has a price strictly greater than 0.
C28_Original == \A q \in ForeignQuotes : IsSome(q.price) => q.price[1] > 0

\* fetchDomesticDailyBars has mapped an output2
Mapped == calc # Null /\ calc.fn = "fetchDomesticDailyBars"

\* the bars have a date and a positive close and are in the order of their
\* dates, equal dates next to each other
C29_FilteredSorted ==
  Mapped =>
    /\ \A i \in 1..Len(calc.out) : calc.out[i].date # <<>> /\ calc.out[i].close > 0
    /\ \A i, j \in 1..Len(calc.out) :
         i < j => localeCompare(calc.out[i].date, calc.out[j].date) <= 0

\* C29 as stated: for every upstream row list the bars fetchDomesticDailyBars
\* returns are sorted ascending by date, no two of them have the same date, and
\* none has an empty date or a close <= 0.
C29_Original ==
  /\ C29_FilteredSorted
  /\ Mapped => \A i, j \in 1..Len(calc.out) : i # j => calc.out[i].date # calc.out[j].date

\* the volume sub-score by the rule of the claim, from the sums of the last 3
\* and of the last 20 volumes: the ratio is (sum3 / 3) / (sum20 / 20)
C30_Rule(sum3, sum20) ==
  IF 20 * sum3 > 6 * sum20 THEN 10
  ELSE IF 40 * sum3 > 9 * sum20 THEN 6
  ELSE IF 40 * sum3 < 3 * sum20 THEN 0 - 6
  ELSE 0

\* C30 as stated: for at least 60 bars with a positive mean volume over the
\* last 20 days, the volume sub-score computeMarketScore uses is +10 for a
\* ratio above 2.0, +6 above 1.5, -6 below 0.5 and 0 otherwise, also when the
\* last three volumes are all zero (ratio 0).
C30_Original ==
  Scored =>
    LET volumes == VolumesOf(BarsOf(calc.bars))
        sum3 == SumSeq(LastOf(volumes, 3))
        sum20 == SumSeq(LastOf(volumes, 20))
    IN  sum20 > 0 => scoreVolume(calc.out.volRatio) = C30_Rule(sum3, sum20)

\* the fundamentals cache holds an unexpired entry for ticker at time t
FinLive(ticker, t) == IsSome(finCache[ticker]) /\ finCache[ticker][1].expiresAt > t

\* the coroutines of fetchDomesticFinancials
Fins(fs) == {f \in DOMAIN fs : f[3] = "fin"}

\* a task that starts within 24 hours of a stored fundamentals fetch takes the
\* fundamentals from the cache and starts no fetch of them, whatever the quote
\* cache holds; a task that starts later, or with nothing stored, starts one
C31_Start ==
  \A i \in 1..Len(tickers') :
    (TaskStarts(i) /\ isKrTicker(normalizeTicker(tickers'[i]))) =>
      LET n == normalizeTicker(tickers'[i])
      IN  IF IsSome(finCache'[n]) /\ clock' < finCache'[n][1].expiresAt
            THEN /\ <<batch', i, "fin">> \notin DOMAIN fibers'
                 /\ tasks'[i].fin = Some(Some(finCache'[n][1].data))
            ELSE /\ <<batch', i, "fin">> \in DOMAIN fibers'
                 /\ tasks'[i].fin = Null

\* the fundamentals cache is written only by a fundamentals call that is
\* answered, for 24 hours from the answer; a fetch of the current invocation
\* that ends without fundamentals has stored nothing, and its Quote has none
C31_Store ==
  /\ \A t \in DOMAIN finCache :
       finCache'[t] # finCache[t] =>
         /\ IsSome(finCache'[t]) /\ finCache'[t][1].expiresAt = clock + FIN_TTL_MS
         /\ \E f \in Fins(fibers) \ Fins(fibers') : fibers[f].ticker = t /\ fibers[f].pc = "call"
  /\ \A f \in Fins(fibers) \ Fins(fibers') :
       (f[1] = batch /\ tasks[f[2]].status = "running" /\ tasks'[f[2]].fin = Some(Null)) =>
         finCache' = finCache
  /\ \A i \in 1..Len(results') :
       (IsSome(results'[i]) /\ i <= Len(tasks') /\ tasks'[i].fin \in {Null, Some(Null)}) =>
         results'[i][1].fundamentals = Null

\* no call goes to the fundamentals endpoint for a ticker while an unexpired
\* entry is stored for it
C31_NoCall ==
  \A f \in Fins(fibers') : IssuesCall(f) => ~FinLive(fibers'[f].ticker, clock)

\* C31 as stated: within 24 hours of a successful fundamentals fetch for a
\* domestic ticker no further call to the fundamentals endpoint is made for
\* it, also when the quote cache has expired; a fundamentals call that fails or
\* returns no row stores nothing, the next fetch calls again and the Quote
\* carries no fundamentals.
C31_Original == [][C31_NoCall /\ C31_Start /\ C31_Store]_vars

\* C31, amended: a fetch that starts within 24 hours of a stored fundamentals
\* fetch makes no call to the fundamentals endpoint; the rest as stated.
C31_FinTtl == [][C31_Start /\ C31_Store]_vars

\* 20 s after the first fetch the second one has called the spot-quote
\* endpoint again and returned the stored fundamentals without a call
C31_Witness ==
  /\ batch = 2 /\ clock = QUOTE_TTL_MS /\ IsSome(retval)
  /\ Len(tasks) = 1 /\ ~tasks[1].quoteHit /\ ~tasks[1].caught
  /\ IsSome(finCache[T_KR]) /\ finCache[T_KR][1].expiresAt = FIN_TTL_MS
  /\ quoteCache[T_KR] # Null /\ quoteCache[T_KR][1].expiresAt = 2 * QUOTE_TTL_MS
  /\ results[1][1].fundamentals = Some(finCache[T_KR][1].data)

\* the first fetch returned a Quote without fundamentals and stored nothing:
\* the second one calls the fundamentals endpoint
C31_WitnessAgain ==
  /\ batch = 2
  /\ finCache[T_KR] = Null
  /\ <<2, 1, "fin">> \in DOMAIN fibers /\ fibers[<<2, 1, "fin">>].pc = "call"
  /\ Fins(fibers) = {<<2, 1, "fin">>}

\* C32 as stated: fetchQuotes eventually returns, whatever the upstream does,
\* also when it never completes a response; and every ticker of the batch is
\* eventually fetched.
C32_Original ==
  /\ Pending ~> IsSome(retval)
  /\ Pending ~> (index = Len(tickers))

\* s is the string t without the blanks at its ends
Trimmed(s, t) ==
  /\ s = <<>> \/ (Head(s) # " " /\ s[Len(s)] # " ")
  /\ \E i \in 1..(Len(t) + 1) :
       /\ i + Len(s) - 1 <= Len(t)
       /\ s = SubSeq(t, i, i + Len(s) - 1)
       /\ \A k \in 1..Len(t) : (k < i \/ k >= i + Len(s)) => t[k] = " "

\* n is the normalized form of the string t: t trimmed and uppercased, and
\* padded with zeros to six digits when that is one to six digits
NormalForm(n, t) ==
  \E c \in {SubSeq(t, i, j) : i \in 1..(Len(t) + 1), j \in 0..Len(t)} :
    /\ Trimmed(c, t)
    /\ LET u == [k \in 1..Len(c) |-> UpperChar(c[k])]
       IN  IF Len(u) \in 1..6 /\ \A k \in 1..Len(u) : u[k] \in Digits
             THEN /\ Len(n) = 6
                  /\ \A k \in 1..6 : n[k] = IF k <= 6 - Len(u) THEN "0" ELSE u[k - (6 - Len(u))]
             ELSE n = u

SixDigits(t) == Len(t) = 6 /\ \A k \in 1..6 : t[k] \in Digits

\* normalizeTicker gives the normal form, and its result is its own normal form
C33_Normalized ==
  (calc # Null /\ calc.fn = "normalizeTicker") =>
    /\ NormalForm(calc.out, calc.ticker)
    /\ normalizeTicker(calc.out) = calc.out

\* every fetch is for the normal form of the batch's string, the foreign
\* fetch for the forms that are not six digits and the domestic ones for those
\* that are; every cache key is a normal form, and so is the ticker of the
\* Quote stored under it
C33_Sent ==
  /\ \A f \in DOMAIN fibers :
       /\ NormalForm(fibers[f].ticker, tickers[f[2]])
       /\ f[3] = "ovs" <=> ~SixDigits(fibers[f].ticker)
  /\ \A k \in DOMAIN quoteCache :
       IsSome(quoteCache[k]) =>
         /\ \E i \in 1..Len(tickers) : NormalForm(k, tickers[i])
         /\ quoteCache[k][1].data.ticker = k
  /\ \A k \in DOMAIN finCache :
       IsSome(finCache[k]) => SixDigits(k) /\ \E i \in 1..Len(tickers) : NormalForm(k, tickers[i])

\* a task that starts fetches from the domestic endpoints exactly when the
\* normal form of its string is six digits, from the foreign one otherwise
C33_Step ==
  \A i \in 1..Len(tickers') :
    TaskStarts(i) =>
      LET started == {f[3] : f \in {g \in DOMAIN fibers' : g[1] = batch' /\ g[2] = i}}
      IN  IF \E n \in NormTickers : NormalForm(n, tickers'[i]) /\ SixDigits(n)
            THEN "bars" \in started /\ "ovs" \notin started
            ELSE started = {"ovs"}

\* C33: every ticker sent upstream and every cache key is the normalized form
\* of the input (trimmed, uppercased, one to six digits padded with zeros to
\* six); the domestic endpoints are called exactly for the six-digit forms, the
\* foreign one for all others; normalizing twice is normalizing once.
C33_NormalizedTickers == [](C33_Normalized /\ C33_Sent) /\ [][C33_Step]_vars

\* a short domestic symbol with blanks around it was padded
C33_Witness ==
  /\ calc # Null /\ calc.fn = "normalizeTicker"
  /\ calc.ticker = <<" ">> \o T_KR_SHORT \o <<" ">>
  /\ calc.out = T_KR

\* the fundamentals of the padded symbol are cached for the short one
C33_WitnessSent ==
  /\ tickers = <<T_KR_SHORT>>
  /\ IsSome(finCache[T_KR]) /\ IsSome(quoteCache[T_KR])

\* the foreign endpoint is called with the uppercased, trimmed symbol
C33_WitnessForeign ==
  /\ tickers = <<T_US_RAW>>
  /\ \E f \in DOMAIN fibers : f[3] = "ovs" /\ fibers[f].pc = "call" /\ fibers[f].ticker = T_US

\* C34 as stated: the normalization of a display name removes every blank,
\* parenthesis, bracket, period, hyphen and middle dot (U+00B7) and is the
\* function the keys of the name map were built with: a KR candidate with an
\* unlisted ticker whose name gives a key under the build script's
\* normalization leaves verification with the code of that key.
C34_Original ==
  calc.stage = "verified" =>
    \A i \in 1..Len(calc.parsed) :
      LET name == calc.parsed[i].name
          key == buildNormalizeName(name)
      IN  /\ \A k \in 1..Len(normalizeName(name)) :
               normalizeName(name)[k] \notin {" ", "\t", "(", ")", "[", "]", ".", "-", "U+00B7"}
          /\ (KrMiss(calc.parsed[i]) /\ key \in DOMAIN krNameMapRecord) =>
               /\ calc.verified[i].ticker = krNameMapRecord[key]
               /\ calc.verified[i].verified

\* the candidates made from an entry without a usable market tag
C35_Untagged == {i \in 1..Len(calc.parsed) : calc.raw[i].market \notin {"KR", "US"}}

\* C35 as stated: a candidate whose market tag is absent or UNKNOWN is made
\* with market UNKNOWN and leaves verification with verified = false,
\* whatever its ticker.
C35_Original ==
  calc.stage = "verified" =>
    \A i \in C35_Untagged :
      /\ calc.parsed[i].market = "UNKNOWN"
      /\ ~calc.verified[i].verified

\* C35: a candidate whose market tag is absent or UNKNOWN is made with the
\* market its trimmed ticker shows: KR for six digits, US for any other
\* ticker that is not empty, UNKNOWN for an empty one; a candidate made with
\* market UNKNOWN leaves verification with verified = false.
C35_InferredMarket ==
  calc.stage = "verified" =>
    /\ \A i \in C35_Untagged :
         LET ticker == calc.parsed[i].ticker
         IN  /\ Trimmed(ticker, calc.raw[i].ticker)
             /\ calc.parsed[i].market =
                  IF SixDigits(ticker) THEN "KR"
                  ELSE IF ticker # <<>> THEN "US" ELSE "UNKNOWN"
    /\ \A i \in 1..Len(calc.parsed) :
         calc.parsed[i].market = "UNKNOWN" =>
           /\ calc.verified[i].market = "UNKNOWN"
           /\ ~calc.verified[i].verified

\* an untagged candidate with a listed six-digit ticker is verified as KR
C35_Witness ==
  /\ calc.stage = "verified"
  /\ \E i \in C35_Untagged :
       /\ calc.parsed[i].market = "KR"
       /\ calc.verified[i].verified

\* an untagged candidate with a blank ticker stays UNKNOWN and unverified
C35_WitnessUnknown ==
  /\ calc.stage = "verified"
  /\ \E i \in C35_Untagged :
       /\ calc.raw[i].ticker # <<>>
       /\ calc.parsed[i].market = "UNKNOWN"
       /\ ~calc.verified[i].verified

\* an untagged candidate with a listed foreign ticker is verified as US
C35_WitnessForeign ==
  /\ calc.stage = "verified"
  /\ \E i \in C35_Untagged :
       /\ calc.parsed[i].market = "US"
       /\ calc.verified[i].verified

\* the call of coroutine f is answered 401 and is to be sent again
Unauthorized(f) ==
  /\ f \in DOMAIN fibers /\ f \in DOMAIN fibers'
  /\ fibers[f].pc = "call" /\ fibers[f].retry /\ ~fibers'[f].retry

\* the cache holds a token newer than the one the call of f was sent with
NewerCached(f) == IsSome(cachedToken) /\ cachedToken[1].token.id > fibers[f].tok[1].id

\* another call was answered 401 while the token of f was the latest issued,
\* so it had been sent with that token too
SameTokenRefused(f) ==
  \E g \in DOMAIN fibers \ {f} :
    ~fibers[g].retry /\ fibers[g].invalAt = fibers[f].tok[1].id

\* C36 as stated: calls sent with the same token that are all answered 401
\* cause one refresh between them: a 401 that arrives when the refresh of
\* another caller has already cached a newer token leaves that token in the
\* cache and starts no refresh.
C36_Original ==
  [][\A f \in DOMAIN fibers :
       (Unauthorized(f) /\ NewerCached(f) /\ SameTokenRefused(f)) =>
         /\ cachedToken' = cachedToken
         /\ DOMAIN refreshes' = DOMAIN refreshes]_vars

\* every code of the name map is in the domestic set (buildKrUniverse)
C37_MapInSet == \A key \in DOMAIN krNameMapRecord : krNameMapRecord[key] \in krSet

\* C37: when every code of the name map is in the domestic set, every
\* candidate that leaves verification with verified = true has market KR or
\* US and a ticker whose upper-case form is in the set of that market, and
\* verifying the verified list once more gives the same list.
C37_VerifiedSound ==
  (C37_MapInSet /\ calc.stage \in {"verified", "clamped"}) =>
    /\ \A i \in 1..Len(calc.verified) :
         calc.verified[i].verified =>
           \/ calc.verified[i].market = "KR" /\ toUpperCase(calc.verified[i].ticker) \in krSet
           \/ calc.verified[i].market = "US" /\ toUpperCase(calc.verified[i].ticker) \in usSet
    /\ applyVerification(calc.verified) = calc.verified
    /\ calc.stage = "clamped" =>
         /\ applyVerification(calc.out) = calc.out
         /\ \A i \in 1..Len(calc.out) :
              calc.out[i].verified =>
                \/ calc.out[i].market = "KR" /\ toUpperCase(calc.out[i].ticker) \in krSet
                \/ calc.out[i].market = "US" /\ toUpperCase(calc.out[i].ticker) \in usSet

\* verification rewrote a ticker through the name map and verified another
\* candidate by membership alone
C37_Witness ==
  /\ calc.stage = "verified"
  /\ \E i \in 1..Len(calc.verified) :
       /\ calc.verified[i].verified
       /\ calc.verified[i].ticker # calc.parsed[i].ticker
  /\ \E i \in 1..Len(calc.verified) :
       /\ calc.verified[i].verified
       /\ calc.verified[i].ticker = calc.parsed[i].ticker

\* a verified foreign ticker keeps its lower-case letters
C37_WitnessLower ==
  /\ calc.stage = "verified"
  /\ \E i \in 1..Len(calc.verified) :
       /\ calc.verified[i].verified
       /\ calc.verified[i].market = "US"
       /\ toUpperCase(calc.verified[i].ticker) # calc.verified[i].ticker

\* a KR candidate stays unverified, and a second verification leaves it so
C37_WitnessUnverified ==
  /\ calc.stage = "verified"
  /\ \E i \in 1..Len(calc.verified) :
       /\ calc.verified[i].market = "KR"
       /\ ~calc.verified[i].verified
       /\ calc.verified[i].ticker # <<>>

====
